---- MODULE Spec2Model ----
(***************************************************************************)
(* State-machine model of the rusto paper-trading engine.                  *)
(*                                                                         *)
(* Numeric model.  rust_decimal values are held as fixed-point integers:   *)
(*   - a price p is held as p * PriceScale;                                *)
(*   - a rate (fee, margin rate, percentage) r is held as r * RateDen;     *)
(*   - a quantity is held in lots (one lot is the quantity precision);     *)
(*   - money (pnl, balance) is held as value * PriceScale * RateDen.       *)
(* Every sum and product the modelled code forms is exact at these scales. *)
(* Option<T> is None (the empty tuple) or Some(v) (a one-element tuple).   *)
(***************************************************************************)
EXTENDS Integers, Sequences, FiniteSets, TLC

VARIABLES
    positions,           \* PositionManager.positions : Vec<Position>
    risk,                \* RiskManager: balance, daily_pnl, daily_halted, open_positions
    order_books,         \* SimulatorEngine.order_books : symbol -> Option<LocalOrderBook>
    latest_profiles,     \* SimulatorEngine.latest_profiles : symbol -> Option<profile>
    hourly_performance,  \* SimulatorEngine.hourly_performance : (symbol, hour) -> pnls
    symbol_stats,        \* SimulatorEngine.symbol_stats : symbol -> SymbolStats
    execution_q,         \* the execution-event mpsc channel (main.rs), bounded
    now,                 \* the clock (Utc::now, trade timestamps), in seconds
    pipe,                \* main.rs: the tasks, the channels between them, the shutdown flag
    range_bars,          \* RangeBarBuilder.builders, with the trades fed and the bars emitted
    volume_profiler,     \* VolumeProfiler: its settings, profiles and the last snapshot returned
    order_flow,          \* OrderFlowTracker, with the bars it analysed
    strategy,            \* StrategyEngine, with the bars it processed and the signals emitted
    last_gate,           \* history: where the most recent signal ended in execute_signal
    hist                 \* history: PositionOpened events the channel accepted, whether
                         \* it ever refused an event, whether a DailyLimitReached event was
                         \* ever handed to it, ids passed to RiskManager.close_position

vars == <<positions, risk, order_books, latest_profiles, hourly_performance,
          symbol_stats, execution_q, now, pipe, range_bars, volume_profiler,
          order_flow, strategy, last_gate, hist>>

None == <<>>
Some(v) == <<v>>
Unwrap(o) == o[1]

Min(a, b) == IF a <= b THEN a ELSE b
Abs(a) == IF a < 0 THEN -a ELSE a

RECURSIVE SumSeq(_)
SumSeq(s) == IF s = <<>> THEN 0 ELSE Head(s) + SumSeq(Tail(s))

(***************************************************************************)
(* Scales and bounds of the model.                                         *)
(***************************************************************************)
PriceScale == 100
RateDen == 100
Px(p) == p * PriceScale
Money(price_times_lots) == price_times_lots * RateDen

MaxPositions == 2        \* signals accepted in one run of the model
MaxPMPositions == 2      \* positions opened when the PositionManager is driven alone
ExecCap == 1             \* capacity of the execution-event channel in the model
MaxTime == 1             \* the clock stops advancing here

Symbols == {"btc", "eth"}
Sides == {"Buy", "Sell"}

(***************************************************************************)
(* Configuration (config.rs), at the model's scales.                       *)
(***************************************************************************)
Leverage == 5                    \* simulator.leverage
MaintenanceMarginNum == 8        \* simulator.maintenance_margin_rate = 0.08
FeeNum == 1                      \* simulator.taker_fee = 0.01
InitialBalanceUnits == 200       \* risk.initial_balance
MaxRiskNum == 2                  \* risk.max_risk_per_trade = 0.02
DailyLossLimitNum == 5           \* risk.daily_loss_limit_pct = 0.05
MaxConcurrent == 2               \* risk.max_concurrent_positions
BreakEvenTicks == 1              \* risk.break_even_ticks
ProfitLockTicks == 1             \* risk.break_even_profit_lock_ticks
BreakEvenMinHoldSecs == 1        \* risk.break_even_min_hold_secs
BreakEvenTriggerRRNum == 100     \* risk.break_even_trigger_rr = 1.00
SoftStopSeconds == 1             \* simulator.soft_stop_seconds
SoftStopDrawdownPct == 5         \* simulator.soft_stop_drawdown_pct
OrderBookDepth == 2              \* simulator.order_book_depth
MaxSpreadBps == 500              \* simulator.max_spread_bps
MinDepthImbalanceNum == 105      \* simulator.min_depth_imbalance_ratio = 1.05
ExpectancyMinTrades == 1         \* simulator.expectancy_min_trades_per_hour
ExpectancyLookback == 2          \* simulator.expectancy_lookback_trades
ExpectancyMinAvgPnl == 0         \* simulator.expectancy_min_avg_pnl
MaxModelSlippageBps == 260       \* simulator.max_model_slippage_bps
ImpactDepthLevels == 1           \* simulator.impact_depth_levels
ImpactWeightBps == 8             \* simulator.impact_weight_bps
HourLen == 1                     \* seconds per clock hour in the model

InitialBalance == Money(Px(InitialBalanceUnits))

(***************************************************************************)
(* types.rs: Position                                                      *)
(***************************************************************************)
\* a liquidation test that excludes the liquidation price itself
should_liquidate_strict(pos, mark_price) ==
    IF pos.side = "Buy" THEN mark_price < pos.liquidation_price
                        ELSE mark_price > pos.liquidation_price

should_liquidate(pos, mark_price) ==
    IF pos.side = "Buy" THEN mark_price <= pos.liquidation_price
                        ELSE mark_price >= pos.liquidation_price

(***************************************************************************)
(* simulator/position.rs                                                   *)
(***************************************************************************)
\* entry * (1 -/+ (1/leverage - mmr - 2*fee)); exact because entry is a
\* multiple of PriceScale = RateDen.
\* the same with the rates given as numerators over rate_den
liquidation_price_at(side, entry_price, leverage, mmr_num, fee_num, rate_den) ==
    LET fee_cost     == fee_num * 2
        leverage_inv == rate_den \div leverage
        adjustment   == leverage_inv - mmr_num - fee_cost
    IN IF side = "Buy"
       THEN (entry_price * (rate_den - adjustment)) \div rate_den
       ELSE (entry_price * (rate_den + adjustment)) \div rate_den

calculate_liquidation_price(side, entry_price, leverage, mmr_num, fee_num) ==
    liquidation_price_at(side, entry_price, leverage, mmr_num, fee_num, RateDen)

\* raw_pnl - (entry*qty + exit*qty) * fee_rate, as money
net_pnl_at(side, entry_price, exit_price, quantity, fee_num, rate_den) ==
    LET raw_pnl  == IF side = "Buy" THEN (exit_price - entry_price) * quantity
                                    ELSE (entry_price - exit_price) * quantity
        notional == entry_price * quantity + exit_price * quantity
    IN raw_pnl * rate_den - notional * fee_num

net_pnl(side, entry_price, exit_price, quantity, fee_num) ==
    net_pnl_at(side, entry_price, exit_price, quantity, fee_num, RateDen)

IsOpen(ps, id) == id \in DOMAIN ps /\ ps[id].status = "Open"

\* Pushes the new position and returns a copy of it.  The id (a fresh UUID in
\* the code) is the index in the vector.  exit_time holds Utc::now() of the
\* close, which nothing reads: its value is the token "Utc::now".  exit_reason
\* is the field types.rs declares; no operation of position.rs assigns it.
open_position_with(ps, signal, quantity, t, leverage, mmr_num, fee_num, rate_den) ==
    LET position == [
            id                |-> Len(ps) + 1,
            symbol            |-> signal.symbol,
            side              |-> signal.side,
            entry_price       |-> signal.entry_price,
            quantity          |-> quantity,
            stop_loss         |-> signal.stop_loss,
            take_profit       |-> signal.take_profit,
            setup             |-> signal.setup,
            status            |-> "Open",
            pnl               |-> 0,
            entry_time        |-> t,
            exit_time         |-> None,
            exit_price        |-> None,
            exit_reason       |-> None,
            break_even_moved  |-> FALSE,
            liquidation_price |-> liquidation_price_at(
                                      signal.side, signal.entry_price, leverage,
                                      mmr_num, fee_num, rate_den),
            tp1_filled        |-> FALSE,
            tp1_price         |-> None,
            tp2_price         |-> None,
            original_quantity |-> quantity ]
    IN [positions |-> Append(ps, position), ret |-> position]

\* PositionManager::new keeps leverage, maintenance_margin_rate and taker_fee
open_position(ps, signal, quantity, t) ==
    open_position_with(ps, signal, quantity, t, Leverage, MaintenanceMarginNum,
                       FeeNum, RateDen)

\* a partial close that accepts any quantity up to the whole position
close_partial_up_to_all(ps, position_id, close_quantity, exit_price, fee_num) ==
    IF ~IsOpen(ps, position_id) THEN [positions |-> ps, ret |-> None]
    ELSE LET pos == ps[position_id] IN
         IF close_quantity > pos.quantity THEN [positions |-> ps, ret |-> None]
         ELSE LET partial_pnl == net_pnl(pos.side, pos.entry_price, exit_price,
                                         close_quantity, fee_num)
              IN [positions |-> [ps EXCEPT ![position_id].quantity = @ - close_quantity,
                                           ![position_id].pnl = @ + partial_pnl],
                  ret |-> Some(partial_pnl)]

close_partial(ps, position_id, close_quantity, exit_price, fee_num) ==
    IF ~IsOpen(ps, position_id) THEN [positions |-> ps, ret |-> None]
    ELSE LET pos == ps[position_id] IN
         IF close_quantity >= pos.quantity THEN [positions |-> ps, ret |-> None]
         ELSE LET partial_pnl == net_pnl(pos.side, pos.entry_price, exit_price,
                                         close_quantity, fee_num)
              IN [positions |-> [ps EXCEPT ![position_id].quantity = @ - close_quantity,
                                           ![position_id].pnl = @ + partial_pnl],
                  ret |-> Some(partial_pnl)]

ClosedAt(pos, exit_price, fee_num) ==
    [pos EXCEPT !.pnl = @ + net_pnl(pos.side, pos.entry_price, exit_price,
                                    pos.quantity, fee_num),
                !.exit_price = Some(exit_price),
                !.exit_time = Some("Utc::now"),
                !.status = "Closed"]

\* close_position without the status filter of its find
close_position_any_status(ps, position_id, exit_price, fee_num) ==
    IF position_id \notin DOMAIN ps THEN [positions |-> ps, ret |-> None]
    ELSE LET closed == ClosedAt(ps[position_id], exit_price, fee_num)
         IN [positions |-> [ps EXCEPT ![position_id] = closed], ret |-> Some(closed)]

close_position(ps, position_id, exit_price, fee_num) ==
    IF ~IsOpen(ps, position_id) THEN [positions |-> ps, ret |-> None]
    ELSE LET closed == ClosedAt(ps[position_id], exit_price, fee_num)
         IN [positions |-> [ps EXCEPT ![position_id] = closed], ret |-> Some(closed)]

\* a stop placed on the far side of the entry: the lock applied with the wrong sign
move_stop_mirrored(ps, position_id, stop_price) ==
    IF IsOpen(ps, position_id)
    THEN [positions |-> [ps EXCEPT ![position_id].stop_loss = 2 * ps[position_id].entry_price - stop_price,
                                   ![position_id].break_even_moved = TRUE],
          ret |-> TRUE]
    ELSE [positions |-> ps, ret |-> FALSE]

move_stop_to_break_even(ps, position_id, stop_price) ==
    IF IsOpen(ps, position_id)
    THEN [positions |-> [ps EXCEPT ![position_id].stop_loss = stop_price,
                                   ![position_id].break_even_moved = TRUE],
          ret |-> TRUE]
    ELSE [positions |-> ps, ret |-> FALSE]

mark_tp1_filled(ps, position_id, stop_price) ==
    IF IsOpen(ps, position_id)
    THEN [positions |-> [ps EXCEPT ![position_id].tp1_filled = TRUE,
                                   ![position_id].stop_loss = stop_price,
                                   ![position_id].break_even_moved = TRUE],
          ret |-> TRUE]
    ELSE [positions |-> ps, ret |-> FALSE]

\* the indices in S, in vector order (iter().filter(..) keeps the order)
RECURSIVE InOrder(_, _, _)
InOrder(S, i, n) ==
    IF i > n THEN <<>>
    ELSE (IF i \in S THEN <<i>> ELSE <<>>) \o InOrder(S, i + 1, n)

open_positions(ps) ==
    InOrder({i \in DOMAIN ps : ps[i].status = "Open"}, 1, Len(ps))

open_positions_for(ps, symbol) ==
    InOrder({i \in DOMAIN ps : ps[i].status = "Open" /\ ps[i].symbol = symbol},
            1, Len(ps))

LiquidatedWith(pos, fee_num, rate_den) ==
    [pos EXCEPT !.pnl = net_pnl_at(pos.side, pos.entry_price, pos.liquidation_price,
                                   pos.quantity, fee_num, rate_den),
                !.exit_price = Some(pos.liquidation_price),
                !.exit_time = Some("Utc::now"),
                !.status = "Liquidated"]

RECURSIVE LiquidateAll(_, _, _, _)
LiquidateAll(ps, ids, fee_num, rate_den) ==
    IF ids = <<>> THEN [positions |-> ps, ret |-> <<>>]
    ELSE LET id == Head(ids) IN
         IF IsOpen(ps, id)
         THEN LET pos  == LiquidatedWith(ps[id], fee_num, rate_den)
                  rest == LiquidateAll([ps EXCEPT ![id] = pos], Tail(ids), fee_num,
                                       rate_den)
              IN [positions |-> rest.positions, ret |-> <<pos>> \o rest.ret]
         ELSE LiquidateAll(ps, Tail(ids), fee_num, rate_den)

\* check_liquidations with the fee rate given over rate_den
check_liquidations_at(ps, symbol, mark_price, fee_num, rate_den) ==
    LET ids_to_liquidate ==
            InOrder({i \in DOMAIN ps : /\ ps[i].status = "Open"
                                       /\ ps[i].symbol = symbol
                                       /\ should_liquidate(ps[i], mark_price)},
                    1, Len(ps))
    IN LiquidateAll(ps, ids_to_liquidate, fee_num, rate_den)

check_liquidations(ps, symbol, mark_price, fee_num) ==
    check_liquidations_at(ps, symbol, mark_price, fee_num, RateDen)

\* the exit price check_exits picks for an open position, None when no exit
\* an exit check that looks at the target before the stop
ExitPriceFor_target_first(p, current_price) ==
    IF p.side = "Buy"
    THEN IF current_price >= p.take_profit THEN Some(p.take_profit)
         ELSE IF current_price <= p.stop_loss THEN Some(p.stop_loss)
         ELSE None
    ELSE IF current_price <= p.take_profit THEN Some(p.take_profit)
         ELSE IF current_price >= p.stop_loss THEN Some(p.stop_loss)
         ELSE None

ExitPriceFor(p, current_price) ==
    IF p.side = "Buy"
    THEN IF current_price <= p.stop_loss THEN Some(p.stop_loss)
         ELSE IF current_price >= p.take_profit THEN Some(p.take_profit)
         ELSE None
    ELSE IF current_price >= p.stop_loss THEN Some(p.stop_loss)
         ELSE IF current_price <= p.take_profit THEN Some(p.take_profit)
         ELSE None

RECURSIVE CloseAll(_, _, _)
CloseAll(ps, ids_to_close, fee_num) ==
    IF ids_to_close = <<>> THEN [positions |-> ps, ret |-> <<>>]
    ELSE LET r    == close_position(ps, Head(ids_to_close)[1], Head(ids_to_close)[2],
                                    fee_num)
             rest == CloseAll(r.positions, Tail(ids_to_close), fee_num)
         IN [positions |-> rest.positions,
             ret |-> (IF r.ret = None THEN <<>> ELSE <<Unwrap(r.ret)>>) \o rest.ret]

check_exits(ps, symbol, current_price, fee_num) ==
    LET ids == InOrder({i \in DOMAIN ps : /\ ps[i].status = "Open"
                                          /\ ps[i].symbol = symbol
                                          /\ ExitPriceFor(ps[i], current_price) # None},
                       1, Len(ps))
        ids_to_close == [k \in DOMAIN ids |->
                            <<ids[k], Unwrap(ExitPriceFor(ps[ids[k]], current_price))>>]
    IN CloseAll(ps, ids_to_close, fee_num)

(***************************************************************************)
(* risk.rs: RiskManager.  rm = [balance, daily_pnl, daily_halted,          *)
(* open_positions]; open_positions maps a symbol to its vector of ids, and *)
(* a symbol absent from the BTreeMap is the empty vector.                  *)
(***************************************************************************)
RECURSIVE TotalOpen(_, _)
TotalOpen(index, syms) ==
    IF syms = {} THEN 0
    ELSE LET s == CHOOSE x \in syms : TRUE
         IN Len(index[s]) + TotalOpen(index, syms \ {s})

\* can_trade without the one-position-per-symbol check
can_trade_any_symbol(rm, signal) ==
    IF rm.daily_halted THEN FALSE
    ELSE TotalOpen(rm.open_positions, Symbols) < MaxConcurrent

can_trade(rm, signal) ==
    IF rm.daily_halted THEN FALSE
    ELSE IF TotalOpen(rm.open_positions, Symbols) >= MaxConcurrent THEN FALSE
    ELSE IF rm.open_positions[signal.symbol] # <<>> THEN FALSE
    ELSE TRUE

\* The quantity, a Decimal, is returned in 1/QtyScale lots.
QtyScale == 100

calculate_position_size(rm, signal) ==
    LET stop_distance == Abs(signal.entry_price - signal.stop_loss) IN
    IF stop_distance = 0 THEN 0
    ELSE LET \* risk_amount / stop_distance, risk_amount = balance * max_risk_per_trade
             quantity == (rm.balance * MaxRiskNum * QtyScale)
                            \div (RateDen * RateDen * stop_distance)
             \* required_margin = entry * quantity / leverage  >  balance
             short == signal.entry_price * quantity * RateDen
                         > rm.balance * Leverage * QtyScale
         IN IF short
            THEN (rm.balance * Leverage * QtyScale) \div (RateDen * signal.entry_price)
            ELSE quantity

register_position(rm, position) ==
    [rm EXCEPT !.open_positions[position.symbol] = Append(@, position.id)]

Retain(ids, id) == SelectSeq(ids, LAMBDA x : x # id)

\* a close that books the pnl and leaves the id in the index
risk_close_position_keeps_id(rm, position) ==
    LET daily_pnl == rm.daily_pnl + position.pnl IN
    [rm EXCEPT !.daily_pnl = daily_pnl,
               !.balance = @ + position.pnl,
               !.daily_halted =
                    IF daily_pnl * RateDen < -(InitialBalance * DailyLossLimitNum)
                    THEN TRUE ELSE @]

\* a close that halts trading while daily_pnl is below the limit and resumes
\* it when a later close brings daily_pnl back
risk_close_position_resumes(rm, position) ==
    LET daily_pnl == rm.daily_pnl + position.pnl IN
    [rm EXCEPT !.open_positions[position.symbol] = Retain(@, position.id),
               !.daily_pnl = daily_pnl,
               !.balance = @ + position.pnl,
               !.daily_halted = daily_pnl * RateDen < -(InitialBalance * DailyLossLimitNum)]

\* daily_limit = initial balance * daily_loss_limit_pct
risk_close_position(rm, position) ==
    LET daily_pnl == rm.daily_pnl + position.pnl IN
    [rm EXCEPT !.open_positions[position.symbol] = Retain(@, position.id),
               !.daily_pnl = daily_pnl,
               !.balance = @ + position.pnl,
               !.daily_halted =
                    IF daily_pnl * RateDen < -(InitialBalance * DailyLossLimitNum)
                    THEN TRUE ELSE @]

\* a test that ignores break_even_moved
should_move_again(position, current_price, break_even_ticks) ==
    LET favorable_move ==
            IF position.side = "Buy" THEN current_price - position.entry_price
                                     ELSE position.entry_price - current_price
    IN favorable_move >= Px(break_even_ticks)

\* should_move_to_break_even of a RiskManager built with the given break_even_ticks
should_move_with(position, current_price, break_even_ticks) ==
    IF position.break_even_moved THEN FALSE
    ELSE LET favorable_move ==
                 IF position.side = "Buy" THEN current_price - position.entry_price
                                          ELSE position.entry_price - current_price
         IN favorable_move >= Px(break_even_ticks)

should_move_to_break_even(position, current_price) ==
    should_move_with(position, current_price, BreakEvenTicks)

\* entry +/- break_even_profit_lock_ticks
break_even_stop_price_with(position, profit_lock_ticks) ==
    IF position.side = "Buy" THEN position.entry_price + Px(profit_lock_ticks)
                             ELSE position.entry_price - Px(profit_lock_ticks)

break_even_stop_price(position) == break_even_stop_price_with(position, ProfitLockTicks)

(***************************************************************************)
(* simulator/order_book.rs: LocalOrderBook.  A ladder is a function from   *)
(* the price levels of the model to quantities; 0 means the level is not   *)
(* in the BTreeMap (update never stores a zero quantity).                  *)
(***************************************************************************)
S5BestBid == Px(100) - 1        \* 99.99
S5BestAsk == Px(100) + 1        \* 100.01
BidLevels == {Px(19), Px(20), S5BestBid - 2, S5BestBid}
AskLevels == {Px(21), Px(22), S5BestAsk, S5BestAsk + 2}

EmptyBook == [bids |-> [p \in BidLevels |-> 0], asks |-> [p \in AskLevels |-> 0]]

Keys(ladder) == {p \in DOMAIN ladder : ladder[p] > 0}
MaxOf(S) == CHOOSE x \in S : \A y \in S : y <= x
MinOf(S) == CHOOSE x \in S : \A y \in S : x <= y

\* an update whose quantities are added to the level instead of replacing it
RECURSIVE ApplyLevels_adds(_, _)
ApplyLevels_adds(ladder, levels) ==
    IF levels = <<>> THEN ladder
    ELSE ApplyLevels_adds([ladder EXCEPT ![Head(levels).price] =
                               IF Head(levels).quantity = 0 THEN 0
                               ELSE @ + Head(levels).quantity],
                          Tail(levels))

RECURSIVE ApplyLevels(_, _)
ApplyLevels(ladder, levels) ==
    IF levels = <<>> THEN ladder
    ELSE ApplyLevels([ladder EXCEPT ![Head(levels).price] = Head(levels).quantity],
                     Tail(levels))

RECURSIVE TrimBids(_, _)
TrimBids(ladder, max_depth) ==
    IF Cardinality(Keys(ladder)) > max_depth
    THEN TrimBids([ladder EXCEPT ![MinOf(Keys(ladder))] = 0], max_depth)
    ELSE ladder

RECURSIVE TrimAsks(_, _)
TrimAsks(ladder, max_depth) ==
    IF Cardinality(Keys(ladder)) > max_depth
    THEN TrimAsks([ladder EXCEPT ![MaxOf(Keys(ladder))] = 0], max_depth)
    ELSE ladder

book_update(book, depth) ==
    [bids |-> TrimBids(ApplyLevels(book.bids, depth.bids), OrderBookDepth),
     asks |-> TrimAsks(ApplyLevels(book.asks, depth.asks), OrderBookDepth)]

best_bid(book) == IF Keys(book.bids) = {} THEN None ELSE Some(MaxOf(Keys(book.bids)))
best_ask(book) == IF Keys(book.asks) = {} THEN None ELSE Some(MinOf(Keys(book.asks)))
HasBoth(book) == best_bid(book) # None /\ best_ask(book) # None

\* mid_price is (bid + ask) / 2; the model keeps twice the mid to stay exact
mid_price_x2(book) ==
    IF HasBoth(book) THEN Some(Unwrap(best_bid(book)) + Unwrap(best_ask(book))) ELSE None
spread(book) ==
    IF HasBoth(book) THEN Some(Unwrap(best_ask(book)) - Unwrap(best_bid(book))) ELSE None

RECURSIVE SumLadder(_, _)
SumLadder(ladder, keys) ==
    IF keys = {} THEN 0
    ELSE LET p == CHOOSE x \in keys : TRUE
         IN ladder[p] + SumLadder(ladder, keys \ {p})

total_bid_volume(book) == SumLadder(book.bids, Keys(book.bids))
total_ask_volume(book) == SumLadder(book.asks, Keys(book.asks))

\* the n best levels of a side: highest bids, lowest asks
RECURSIVE TopBids(_, _)
TopBids(keys, n) ==
    IF n = 0 \/ keys = {} THEN {}
    ELSE {MaxOf(keys)} \cup TopBids(keys \ {MaxOf(keys)}, n - 1)
RECURSIVE TopAsks(_, _)
TopAsks(keys, n) ==
    IF n = 0 \/ keys = {} THEN {}
    ELSE {MinOf(keys)} \cup TopAsks(keys \ {MinOf(keys)}, n - 1)

top_bid_depth(book, n) == SumLadder(book.bids, TopBids(Keys(book.bids), n))
top_ask_depth(book, n) == SumLadder(book.asks, TopAsks(Keys(book.asks), n))

(***************************************************************************)
(* binance/exchange_info.rs: SymbolInfo filters.  Every symbol the bot     *)
(* trades has a SymbolInfo (main.rs refuses to start otherwise).           *)
(***************************************************************************)
TickSizeUnits == 1       \* price_tick_size
MinPriceUnits == 1       \* min_price
MaxPriceUnits == 1000    \* max_price
StepLots == 2            \* quantity_step_size, in lots
MinQtyLots == 1          \* min_quantity, in lots
MaxQtyLots == 1000       \* max_quantity, in lots
MinNotionalUnits == 5    \* min_notional

\* Decimal::round_dp(0) of n/d for n >= 0, d > 0: nearest, ties to even
RoundHalfEven(n, d) ==
    LET q == n \div d
        r == n % d
    IN IF 2 * r < d THEN q
       ELSE IF 2 * r > d THEN q + 1
       ELSE IF q % 2 = 0 THEN q ELSE q + 1

Ok(v) == [ok |-> TRUE, value |-> v]
Err == [ok |-> FALSE, value |-> None]

round_price(price) ==
    IF price < Px(MinPriceUnits) THEN Err
    ELSE IF price > Px(MaxPriceUnits) THEN Err
    ELSE Ok(RoundHalfEven(price, Px(TickSizeUnits)) * Px(TickSizeUnits))

\* quantity in 1/QtyScale lots
round_quantity(quantity) ==
    IF quantity < MinQtyLots * QtyScale THEN Err
    ELSE IF quantity > MaxQtyLots * QtyScale THEN Err
    ELSE Ok(RoundHalfEven(quantity, StepLots * QtyScale) * StepLots * QtyScale)

validate_notional(price, quantity) ==
    price * quantity >= Px(MinNotionalUnits) * QtyScale

validate_order(price, quantity) ==
    LET rounded_price    == round_price(price)
        rounded_quantity == round_quantity(quantity)
    IN IF ~rounded_price.ok THEN Err
       ELSE IF ~rounded_quantity.ok THEN Err
       ELSE IF ~validate_notional(rounded_price.value, rounded_quantity.value) THEN Err
       ELSE Ok(<<rounded_price.value, rounded_quantity.value>>)

(***************************************************************************)
(* simulator/engine.rs: the pre-entry gates.                               *)
(***************************************************************************)
RequireOrderbookForEntry == TRUE
ExpectancyFilterEnabled == TRUE
SlippageModelEnabled == TRUE

\* (bid_vol, ask_vol, ratio >= min_depth_imbalance_ratio) of depth_imbalance
DepthRatioOk(book) ==
    LET bid_vol == total_bid_volume(book)
        ask_vol == total_ask_volume(book)
    IN IF ask_vol > 0 THEN bid_vol * RateDen >= MinDepthImbalanceNum * ask_vol
       ELSE IF bid_vol > 0 THEN 999 * RateDen >= MinDepthImbalanceNum
       ELSE RateDen >= MinDepthImbalanceNum

\* a gate that scales the spread ratio by 100 000 instead of 10 000
quality_filters_times_ten(books, signal, max_spread_bps) ==
    IF books[signal.symbol] = None THEN ~RequireOrderbookForEntry
    ELSE LET book == Unwrap(books[signal.symbol]) IN
         IF spread(book) = None THEN ~RequireOrderbookForEntry
         ELSE IF Unwrap(mid_price_x2(book)) <= 0 THEN FALSE
         ELSE IF Unwrap(spread(book)) * 2 * 100000
                    > max_spread_bps * Unwrap(mid_price_x2(book)) THEN FALSE
         ELSE IF signal.side = "Buy" THEN DepthRatioOk(book)
         ELSE IF total_bid_volume(book) <= 0 THEN FALSE
         ELSE total_ask_volume(book) * RateDen
                  >= MinDepthImbalanceNum * total_bid_volume(book)

\* a gate that measures the bid/ask imbalance whatever the side of the signal
quality_filters_bid_ratio_only(books, signal, max_spread_bps) ==
    IF books[signal.symbol] = None THEN ~RequireOrderbookForEntry
    ELSE LET book == Unwrap(books[signal.symbol]) IN
         IF spread(book) = None THEN ~RequireOrderbookForEntry
         ELSE IF mid_price_x2(book) = None THEN ~RequireOrderbookForEntry
         ELSE IF Unwrap(mid_price_x2(book)) <= 0 THEN FALSE
         ELSE IF Unwrap(spread(book)) * 2 * 10000
                    > max_spread_bps * Unwrap(mid_price_x2(book)) THEN FALSE
         ELSE DepthRatioOk(book)

\* the gate under a configured simulator.max_spread_bps
quality_filters(books, signal, max_spread_bps) ==
    IF books[signal.symbol] = None THEN ~RequireOrderbookForEntry
    ELSE LET book == Unwrap(books[signal.symbol]) IN
         IF spread(book) = None THEN ~RequireOrderbookForEntry
         ELSE IF mid_price_x2(book) = None THEN ~RequireOrderbookForEntry
         ELSE IF Unwrap(mid_price_x2(book)) <= 0 THEN FALSE
         \* spread_bps = spread / mid * 10000 > max_spread_bps
         ELSE IF Unwrap(spread(book)) * 2 * 10000
                    > max_spread_bps * Unwrap(mid_price_x2(book)) THEN FALSE
         ELSE IF signal.side = "Buy" THEN DepthRatioOk(book)
         ELSE IF total_bid_volume(book) <= 0 THEN FALSE
         ELSE total_ask_volume(book) * RateDen
                  >= MinDepthImbalanceNum * total_bid_volume(book)

passes_execution_quality_filters(books, signal) ==
    quality_filters(books, signal, MaxSpreadBps)

HourOf(t) == t \div HourLen

passes_expectancy_filter(hp, signal) ==
    IF ~ExpectancyFilterEnabled THEN TRUE
    ELSE LET pnls == hp[<<signal.symbol, HourOf(signal.timestamp)>>] IN
         \* an absent key and an empty vector both pass (min trades > 0)
         IF Len(pnls) < ExpectancyMinTrades THEN TRUE
         ELSE SumSeq(pnls) >= ExpectancyMinAvgPnl * Len(pnls)

\* quantity in 1/QtyScale lots
passes_slippage_model(books, symbol, side, entry_price, quantity) ==
    IF ~SlippageModelEnabled THEN TRUE
    ELSE IF books[symbol] = None THEN TRUE
    ELSE IF entry_price <= 0 \/ quantity <= 0 THEN FALSE
    ELSE LET book == Unwrap(books[symbol]) IN
         IF mid_price_x2(book) = None THEN TRUE
         ELSE IF Unwrap(mid_price_x2(book)) <= 0 THEN TRUE
         ELSE LET mid2      == Unwrap(mid_price_x2(book))
                  sprd      == IF spread(book) = None THEN 0 ELSE Unwrap(spread(book))
                  top_depth == IF side = "Buy"
                               THEN top_ask_depth(book, ImpactDepthLevels)
                               ELSE top_bid_depth(book, ImpactDepthLevels)
              IN IF top_depth <= 0 THEN TRUE
                 \* spread/mid*5000 + quantity/top_depth*impact_weight_bps > max
                 ELSE ~(sprd * 10000 * top_depth * QtyScale
                            + quantity * ImpactWeightBps * mid2
                          > MaxModelSlippageBps * mid2 * top_depth * QtyScale)

(***************************************************************************)
(* simulator/engine.rs: SimulatorEngine.  The handlers are functions of    *)
(* the engine state E = [pm, rm, books, profiles, hp, ss, tx, hs]: the     *)
(* position vector, the risk manager, order_books, latest_profiles,        *)
(* hourly_performance, symbol_stats, the execution channel and the history *)
(* of what the channel accepted.  The tracing output, the trade log and    *)
(* the BotStats snapshot are write-only sinks of the engine and are not    *)
(* part of E; update_excursions only writes the MFE/MAE statistics of a    *)
(* position, which the model does not carry.                               *)
(***************************************************************************)
\* let _ = tx.try_send(event): a full channel refuses the event
try_send(E, event) ==
    IF Len(E.tx) < ExecCap
    THEN [E EXCEPT !.tx = Append(@, event),
                   !.hs.opened = IF event = "PositionOpened" THEN @ + 1 ELSE @,
                   !.hs.daily_limit_sent = IF event = "DailyLimitReached" THEN TRUE ELSE @]
    ELSE [E EXCEPT !.hs.refused = TRUE,
                   !.hs.daily_limit_sent = IF event = "DailyLimitReached" THEN TRUE ELSE @]

\* an ExecutionEvent is modelled by its variant; its payload is not
Event(kind, id) == kind

record_hourly_expectancy(hp, position) ==
    LET key    == <<position.symbol, HourOf(position.entry_time)>>
        pushed == Append(hp[key], position.pnl)
        keep   == ExpectancyLookback
    IN [hp EXCEPT ![key] = IF Len(pushed) > ExpectancyLookback
                           THEN SubSeq(pushed, Len(pushed) - keep + 1, Len(pushed))
                           ELSE pushed]

\* types.rs SymbolStats::record_close
record_close(stats, pnl) ==
    [stats EXCEPT !.total_trades = @ + 1,
                  !.total_pnl = @ + pnl,
                  !.wins = IF pnl >= 0 THEN @ + 1 ELSE @,
                  !.losses = IF pnl >= 0 THEN @ ELSE @ + 1]

\* a finalized position that is announced but never reaches the risk manager
FinalizedWithoutRisk(E, position, kind) ==
    try_send([E EXCEPT !.hp = record_hourly_expectancy(@, position),
                       !.ss[position.symbol] = record_close(@, position.pnl)],
             Event(kind, position.id))

\* what on_trade and check_multi_stage_exits do with a finalized position
Finalized(E, position, kind) ==
    try_send([E EXCEPT !.rm = risk_close_position(@, position),
                       !.hp = record_hourly_expectancy(@, position),
                       !.ss[position.symbol] = record_close(@, position.pnl),
                       !.hs.risk_closed = Append(@, position.id)],
             Event(kind, position.id))

RECURSIVE FinalizedAll(_, _, _)
FinalizedAll(E, finalized, kind) ==
    IF finalized = <<>> THEN E
    ELSE FinalizedAll(Finalized(E, Head(finalized), kind), Tail(finalized), kind)

\* one iteration of the loop of check_multi_stage_exits; p is the copy of the
\* position taken before the loop started
MultiStageTP1(E, p, current_price) ==
    IF ~p.tp1_filled /\ p.tp1_price # None
       /\ (IF p.side = "Buy" THEN current_price >= Unwrap(p.tp1_price)
                             ELSE current_price <= Unwrap(p.tp1_price))
    THEN LET tp1      == Unwrap(p.tp1_price)
             half_qty == p.quantity \div 2
             part     == close_partial(E.pm, p.id, half_qty, tp1, FeeNum)
         IN IF part.ret = None THEN E
            ELSE LET be_stop == IF IsOpen(part.positions, p.id)
                                THEN break_even_stop_price(part.positions[p.id])
                                ELSE p.entry_price
                     marked  == mark_tp1_filled(part.positions, p.id, be_stop)
                 IN IF marked.ret
                    THEN try_send([E EXCEPT !.pm = marked.positions],
                                  Event("TP1Filled", p.id))
                    ELSE [E EXCEPT !.pm = marked.positions]
    ELSE E

MultiStageTP2(E, p, current_price) ==
    IF p.tp1_filled /\ p.tp2_price # None
       /\ (IF p.side = "Buy" THEN current_price >= Unwrap(p.tp2_price)
                             ELSE current_price <= Unwrap(p.tp2_price))
    THEN LET r == close_position(E.pm, p.id, Unwrap(p.tp2_price), FeeNum)
         IN IF r.ret = None THEN E
            ELSE Finalized([E EXCEPT !.pm = r.positions], Unwrap(r.ret), "PositionClosed")
    ELSE E

\* a soft stop that cuts on the timeout alone, whatever the drawdown
MultiStageSoftStop_timeout_only(E, p, current_price, current_time) ==
    LET elapsed_secs == current_time - p.entry_time
    IN IF elapsed_secs >= SoftStopSeconds /\ ~p.tp1_filled
       THEN LET r == close_position(E.pm, p.id, current_price, FeeNum)
            IN IF r.ret = None THEN E
               ELSE Finalized([E EXCEPT !.pm = r.positions], Unwrap(r.ret),
                              "PositionClosed")
       ELSE E

MultiStageSoftStop(E, p, current_price, current_time) ==
    LET elapsed_secs   == current_time - p.entry_time
        \* entry * (1 -/+ soft_stop_drawdown_pct / 100), times RateDen
        drawdown_level == IF p.side = "Buy"
                          THEN p.entry_price * (RateDen - SoftStopDrawdownPct)
                          ELSE p.entry_price * (RateDen + SoftStopDrawdownPct)
        no_progress    == IF p.side = "Buy"
                          THEN current_price * RateDen <= drawdown_level
                          ELSE current_price * RateDen >= drawdown_level
    IN IF elapsed_secs >= SoftStopSeconds /\ ~p.tp1_filled /\ no_progress
       THEN LET r == close_position(E.pm, p.id, current_price, FeeNum)
            IN IF r.ret = None THEN E
               ELSE Finalized([E EXCEPT !.pm = r.positions], Unwrap(r.ret),
                              "PositionClosed")
       ELSE E

RECURSIVE MultiStageLoop(_, _, _, _)
MultiStageLoop(E, snapshot, current_price, current_time) ==
    IF snapshot = <<>> THEN E
    ELSE LET p == Head(snapshot) IN
         IF p.setup # "AdvancedOrderFlow"
         THEN MultiStageLoop(E, Tail(snapshot), current_price, current_time)
         ELSE MultiStageLoop(
                  MultiStageSoftStop(
                      MultiStageTP2(MultiStageTP1(E, p, current_price), p, current_price),
                      p, current_price, current_time),
                  Tail(snapshot), current_price, current_time)

check_multi_stage_exits(E, symbol, current_price, current_time) ==
    LET ids      == open_positions_for(E.pm, symbol)
        snapshot == [k \in DOMAIN ids |-> E.pm[ids[k]]]
    IN MultiStageLoop(E, snapshot, current_price, current_time)

\* the steps of on_trade, each a function of the engine state
LiquidationStep(E, trade) ==
    LET r == check_liquidations(E.pm, trade.symbol, trade.price, FeeNum)
    IN FinalizedAll([E EXCEPT !.pm = r.positions], r.ret, "PositionLiquidated")

MultiStageStep(E, trade) ==
    check_multi_stage_exits(E, trade.symbol, trade.price, trade.timestamp)

StandardExitStep(E, trade) ==
    LET r == check_exits(E.pm, trade.symbol, trade.price, FeeNum)
    IN FinalizedAll([E EXCEPT !.pm = r.positions], r.ret, "PositionClosed")

\* hist.stop_moved counts, per position id, the StopMoved events handed to try_send
StopMovedSent(hs, pos_id) ==
    [hs EXCEPT !.stop_moved = IF pos_id \in DOMAIN @
                              THEN [@ EXCEPT ![pos_id] = @ + 1]
                              ELSE @ @@ (pos_id :> 1)]

RECURSIVE BreakEvenLoop(_, _, _, _, _)
BreakEvenLoop(E, ids, trade, break_even_ticks, profit_lock_ticks) ==
    IF ids = <<>> THEN E
    ELSE LET pos_id == Head(ids) IN
         IF IsOpen(E.pm, pos_id)
            /\ should_move_with(E.pm[pos_id], trade.price, break_even_ticks)
         THEN LET new_stop == break_even_stop_price_with(E.pm[pos_id], profit_lock_ticks)
                  r        == move_stop_to_break_even(E.pm, pos_id, new_stop)
              IN BreakEvenLoop(
                     IF r.ret THEN try_send([E EXCEPT !.pm = r.positions,
                                                      !.hs = StopMovedSent(@, pos_id)],
                                            Event("StopMoved", pos_id))
                              ELSE E,
                     Tail(ids), trade, break_even_ticks, profit_lock_ticks)
         ELSE BreakEvenLoop(E, Tail(ids), trade, break_even_ticks, profit_lock_ticks)

BreakEvenStep_with(E, trade, break_even_ticks, profit_lock_ticks) ==
    BreakEvenLoop(E, open_positions_for(E.pm, trade.symbol), trade, break_even_ticks,
                  profit_lock_ticks)

BreakEvenStep(E, trade) == BreakEvenStep_with(E, trade, BreakEvenTicks, ProfitLockTicks)

\* on_trade with the standard exits ahead of liquidation and multi-stage exits
on_trade_exits_first(E, trade) ==
    BreakEvenStep(MultiStageStep(LiquidationStep(StandardExitStep(E, trade), trade),
                                 trade),
                  trade)

\* on_trade of an engine whose RiskManager has the given break-even settings
on_trade_with(E, trade, break_even_ticks, profit_lock_ticks) ==
    BreakEvenStep_with(StandardExitStep(MultiStageStep(LiquidationStep(E, trade), trade),
                                        trade),
                       trade, break_even_ticks, profit_lock_ticks)

on_trade(E, trade) == on_trade_with(E, trade, BreakEvenTicks, ProfitLockTicks)

\* execute_signal returns the new engine state and the place it returned at
\* a rejection that leaves trading halted
RejectedAndHalted(E, gate) == [E |-> [E EXCEPT !.rm.daily_halted = TRUE], gate |-> gate]

Rejected(E, gate) == [E |-> E, gate |-> gate]

\* the TP1/TP2 targets are written to the copy of the position that
\* open_position returned, which is then registered and announced
WithTargets(E, opened) ==
    LET profile == E.profiles[opened.symbol] IN
    IF opened.setup = "AdvancedOrderFlow" /\ profile # None
    THEN [opened EXCEPT !.tp1_price = Some(Unwrap(profile).vwap),
                        !.tp2_price = Some(Unwrap(profile).vah)]
    ELSE opened

OpenAndAnnounce(E, validated_signal, lots, t) ==
    LET r        == open_position(E.pm, validated_signal, lots, t)
        position == WithTargets(E, r.ret)
    IN try_send([E EXCEPT !.pm = r.positions,
                          !.rm = register_position(@, position)],
                Event("PositionOpened", position.id))

\* execute_signal of an engine configured with the given max_spread_bps
execute_signal_with(E, signal, t, max_spread_bps) ==
    IF ~quality_filters(E.books, signal, max_spread_bps) THEN Rejected(E, "quality")
    ELSE IF ~passes_expectancy_filter(E.hp, signal) THEN Rejected(E, "expectancy")
    ELSE IF ~can_trade(E.rm, signal) THEN Rejected(E, "risk")
    ELSE LET quantity == calculate_position_size(E.rm, signal) IN
         IF quantity <= 0 THEN Rejected(E, "size")
         ELSE LET validated == validate_order(signal.entry_price, quantity) IN
              IF ~validated.ok THEN Rejected(E, "filter")
              ELSE LET validated_entry    == validated.value[1]
                       validated_quantity == validated.value[2]
                       validated_signal   == [signal EXCEPT !.entry_price = validated_entry]
                   IN IF ~passes_slippage_model(E.books, validated_signal.symbol,
                                                validated_signal.side, validated_entry,
                                                validated_quantity)
                      THEN Rejected(E, "slippage")
                      ELSE [E |-> OpenAndAnnounce(E, validated_signal,
                                                  validated_quantity \div QtyScale, t),
                            gate |-> "opened"]

execute_signal(E, signal, t) == execute_signal_with(E, signal, t, MaxSpreadBps)

on_depth(E, depth) ==
    LET book == IF E.books[depth.symbol] = None THEN EmptyBook
                ELSE Unwrap(E.books[depth.symbol])
    IN [E EXCEPT !.books[depth.symbol] = Some(book_update(book, depth))]

\* a Signal is executed and a VolumeProfile is stored; the engine ignores the
\* other processing events (bars and flows)
handle_processing_event(E, event, t) ==
    IF event.type = "Signal" THEN execute_signal(E, event.signal, t)
    ELSE IF event.type = "VolumeProfile"
    THEN [E |-> [E EXCEPT !.profiles[event.profile.symbol] = Some(event.profile)],
          gate |-> "none"]
    ELSE [E |-> E, gate |-> "none"]

(***************************************************************************)
(* Inputs of the engine: the signals, trades, depth updates and volume     *)
(* profiles the environment can deliver.                                   *)
(***************************************************************************)
Shape(side, setup, stop, target) ==
    [side |-> side, setup |-> setup, entry_price |-> Px(20),
     stop_loss |-> Px(stop), take_profit |-> Px(target)]

\* the signals the strategies emit in the model: (symbol, shape)
SignalInputs ==
    { <<"btc", Shape("Buy",  "AdvancedOrderFlow", 17, 22)>>,
      <<"eth", Shape("Sell", "AAA", 21, 18)>>,
      <<"btc", Shape("Buy",  "AAA", 19, 22)>>,      \* near stop: a large quantity
      <<"btc", Shape("Buy",  "AAA", 20, 22)>>,      \* no stop distance: size zero
      <<"btc", Shape("Buy",  "AAA", 15, 22)>> }     \* far stop: below the minimum quantity

\* the signals the run delivers; the gates are checked against all of SignalInputs
SignalFeed ==
    { <<"btc", Shape("Buy",  "AdvancedOrderFlow", 17, 22)>>,
      <<"eth", Shape("Sell", "AAA", 21, 18)>>,
      <<"btc", Shape("Buy",  "AAA", 20, 22)>> }

Signal(symbol, shape, t) ==
    [symbol |-> symbol, side |-> shape.side, setup |-> shape.setup,
     entry_price |-> shape.entry_price, stop_loss |-> shape.stop_loss,
     take_profit |-> shape.take_profit, timestamp |-> t]

TradePrices == {Px(18), Px(19), Px(21), Px(22)}

\* the trades the run delivers: for btc a liquidation, a break-even trigger
\* and a target; for eth a break-even trigger, a stop and a liquidation.  The
\* trade handler is checked against all of TradePrices in every state.
TradeInputs ==
    { <<"btc", Px(18)>>, <<"btc", Px(21)>>, <<"btc", Px(22)>>,
      <<"eth", Px(19)>>, <<"eth", Px(21)>>, <<"eth", Px(22)>> }

Level(price, quantity) == [price |-> Px(price), quantity |-> quantity]

Depth(symbol, b19, b20, a21, a22) ==
    [symbol |-> symbol,
     bids |-> <<Level(19, b19), Level(20, b20)>>,
     asks |-> <<Level(21, a21), Level(22, a22)>>]

DepthInputs ==
    { Depth("btc", 0, 3, 1, 0),      \* bid-heavy, tight spread, thin best ask
      Depth("eth", 0, 2, 3, 0) }     \* ask-heavy, tight spread

ProfileInputs == { [symbol |-> "btc", vwap |-> Px(21), val |-> Px(19), vah |-> Px(22)] }

Hours == 0 .. (MaxTime \div HourLen)

ZeroStats == [total_trades |-> 0, total_pnl |-> 0, wins |-> 0, losses |-> 0]

(***************************************************************************)
(* range_bar.rs: RangeBarBuilder.  A trade is                              *)
(* [symbol, price, quantity, side, timestamp]; a footprint is a function   *)
(* from the price keys that were inserted to [bid_volume, ask_volume].     *)
(***************************************************************************)
\* config.rs range_for: the configured range of a symbol
RangeSizes == [s \in Symbols |-> IF s = "btc" THEN Px(2) ELSE Px(1)]
range_for(symbol) == RangeSizes[symbol]

\* price.round_dp(1): the price in tenths, nearest, ties to even
price_key(price) == RoundHalfEven(price, PriceScale \div 10)

FootprintLevelDefault == [bid_volume |-> 0, ask_volume |-> 0]

\* the footprint bucket of the trade gains its quantity on the aggressor's side
FootprintAdd(footprint, trade) ==
    LET key   == price_key(trade.price)
        level == IF key \in DOMAIN footprint THEN footprint[key] ELSE FootprintLevelDefault
        added == IF trade.side = "Buy"
                 THEN [level EXCEPT !.ask_volume = @ + trade.quantity]
                 ELSE [level EXCEPT !.bid_volume = @ + trade.quantity]
    IN [k \in DOMAIN footprint \cup {key} |-> IF k = key THEN added ELSE footprint[k]]

BuildingBar_new(trade) ==
    [open        |-> trade.price,
     high        |-> trade.price,
     low         |-> trade.price,
     close       |-> trade.price,
     volume      |-> trade.quantity,
     buy_volume  |-> IF trade.side = "Buy" THEN trade.quantity ELSE 0,
     sell_volume |-> IF trade.side = "Sell" THEN trade.quantity ELSE 0,
     open_time   |-> trade.timestamp,
     footprint   |-> FootprintAdd(<<>>, trade)]

\* an update that counts the quantity of a sell in the volume only
BuildingBar_update_buys_only(bar, trade) ==
    [bar EXCEPT !.close = trade.price,
                !.high = IF trade.price > @ THEN trade.price ELSE @,
                !.low = IF trade.price < @ THEN trade.price ELSE @,
                !.volume = @ + trade.quantity,
                !.buy_volume = IF trade.side = "Buy" THEN @ + trade.quantity ELSE @,
                !.footprint = FootprintAdd(@, trade)]

BuildingBar_update(bar, trade) ==
    [bar EXCEPT !.close = trade.price,
                !.high = IF trade.price > @ THEN trade.price ELSE @,
                !.low = IF trade.price < @ THEN trade.price ELSE @,
                !.volume = @ + trade.quantity,
                !.buy_volume = IF trade.side = "Buy" THEN @ + trade.quantity ELSE @,
                !.sell_volume = IF trade.side = "Sell" THEN @ + trade.quantity ELSE @,
                !.footprint = FootprintAdd(@, trade)]

BuildingBar_range(bar) == bar.high - bar.low

\* builders.entry(symbol).or_insert_with(..)
SymbolBarState(builders, symbol) ==
    IF builders[symbol] = None
    THEN [range_size |-> range_for(symbol), current |-> None, bar_count |-> 0]
    ELSE Unwrap(builders[symbol])

RangeBar(trade, completed, bar_index) ==
    [symbol      |-> trade.symbol,
     open        |-> completed.open,
     high        |-> completed.high,
     low         |-> completed.low,
     close       |-> completed.close,
     volume      |-> completed.volume,
     buy_volume  |-> completed.buy_volume,
     sell_volume |-> completed.sell_volume,
     open_time   |-> completed.open_time,
     close_time  |-> trade.timestamp,
     footprint   |-> completed.footprint,
     bar_index   |-> bar_index]

\* the number of bars every symbol has completed so far
TotalBarCount(builders) ==
    LET counted == {s \in Symbols : builders[s] # None}
        RECURSIVE Sum(_)
        Sum(S) == IF S = {} THEN 0
                  ELSE LET s == CHOOSE x \in S : TRUE
                       IN Unwrap(builders[s]).bar_count + Sum(S \ {s})
    IN Sum(counted)

\* a builder that numbers the bars of all symbols with one counter
process_trade_shared_count(builders, trade) ==
    LET state == SymbolBarState(builders, trade.symbol) IN
    IF state.current = None
    THEN [builders |-> [builders EXCEPT ![trade.symbol] =
                            Some([state EXCEPT !.current = Some(BuildingBar_new(trade))])],
          ret |-> None]
    ELSE LET bar == BuildingBar_update(Unwrap(state.current), trade) IN
         IF BuildingBar_range(bar) >= state.range_size
         THEN [builders |-> [builders EXCEPT ![trade.symbol] =
                                 Some([state EXCEPT !.current = Some(BuildingBar_new(trade)),
                                                    !.bar_count = @ + 1])],
               ret |-> Some(RangeBar(trade, bar, TotalBarCount(builders) + 1))]
         ELSE [builders |-> [builders EXCEPT ![trade.symbol] =
                                 Some([state EXCEPT !.current = Some(bar)])],
               ret |-> None]

\* a builder that leaves the next bar to be opened by the following trade
process_trade_starts_empty(builders, trade) ==
    LET state == SymbolBarState(builders, trade.symbol) IN
    IF state.current = None
    THEN [builders |-> [builders EXCEPT ![trade.symbol] =
                            Some([state EXCEPT !.current = Some(BuildingBar_new(trade))])],
          ret |-> None]
    ELSE LET bar == BuildingBar_update(Unwrap(state.current), trade) IN
         IF BuildingBar_range(bar) >= state.range_size
         THEN [builders |-> [builders EXCEPT ![trade.symbol] =
                                 Some([state EXCEPT !.current = None,
                                                    !.bar_count = @ + 1])],
               ret |-> Some(RangeBar(trade, bar, state.bar_count + 1))]
         ELSE [builders |-> [builders EXCEPT ![trade.symbol] =
                                 Some([state EXCEPT !.current = Some(bar)])],
               ret |-> None]

\* RangeBarBuilder::process_trade: the builders afterwards and the bar returned
process_trade(builders, trade) ==
    LET state == SymbolBarState(builders, trade.symbol) IN
    IF state.current = None
    THEN [builders |-> [builders EXCEPT ![trade.symbol] =
                            Some([state EXCEPT !.current = Some(BuildingBar_new(trade))])],
          ret |-> None]
    ELSE LET bar == BuildingBar_update(Unwrap(state.current), trade) IN
         IF BuildingBar_range(bar) >= state.range_size
         THEN [builders |-> [builders EXCEPT ![trade.symbol] =
                                 Some([state EXCEPT !.current = Some(BuildingBar_new(trade)),
                                                    !.bar_count = @ + 1])],
               ret |-> Some(RangeBar(trade, bar, state.bar_count + 1))]
         ELSE [builders |-> [builders EXCEPT ![trade.symbol] =
                                 Some([state EXCEPT !.current = Some(bar)])],
               ret |-> None]

\* RangeBarBuilder::new, before any trade
BarsStart ==
    [builders |-> [s \in Symbols |-> None],
     trades   |-> <<>>,
     emitted  |-> <<>>]

(***************************************************************************)
(* volume_profile.rs: VolumeProfiler.  Prices and tick sizes are in        *)
(* hundredths, timestamps in hours.  levels is the BTreeMap of the         *)
(* populated ticks; vwap is kept as the pair (sum of price*volume, sum of  *)
(* volume) whose quotient the code returns.                                *)
(***************************************************************************)
DecimalMax == 2147483647         \* Decimal::MAX, above every price of the model
SessionResetHours == 1           \* volume_profile.session_reset_hours
DefaultTickSize == 100           \* volume_profile.tick_size = 1.00
DefaultValueAreaPct == 70        \* volume_profile.value_area_pct = 0.70

SymbolProfile_new(t) ==
    [levels |-> <<>>, session_start |-> t, total_volume |-> 0, session_high |-> 0,
     session_low |-> DecimalMax, recent_trades |-> <<>>]

price_to_tick(price, tick_size) == price \div tick_size
tick_to_price(tick, tick_size) == tick * tick_size

\* a search that returns the lowest populated tick whatever the current one
next_tick_lowest(ticks, current) ==
    IF ticks = {} THEN None ELSE Some(MinOf(ticks))

next_tick_above(ticks, current) ==
    IF {t \in ticks : t > current} = {} THEN None
    ELSE Some(MinOf({t \in ticks : t > current}))

next_tick_below(ticks, current) ==
    IF {t \in ticks : t < current} = {} THEN None
    ELSE Some(MaxOf({t \in ticks : t < current}))

\* *levels.entry(tick).or_insert(0) += quantity
LevelAdd(levels, tick, quantity) ==
    IF tick \in DOMAIN levels THEN [levels EXCEPT ![tick] = @ + quantity]
    ELSE levels @@ (tick :> quantity)

\* a maximum that keeps the first of several equal maxima of the iteration
FirstMaxTick(levels) ==
    CHOOSE t \in DOMAIN levels :
        \A u \in DOMAIN levels : levels[u] < levels[t] \/ (levels[u] = levels[t] /\ t <= u)

\* Iterator::max_by over the map in key order: the last of several equal maxima
MaxVolumeTick(levels) ==
    CHOOSE t \in DOMAIN levels :
        \A u \in DOMAIN levels : levels[u] < levels[t] \/ (levels[u] = levels[t] /\ u <= t)

clean_old_trades(recent_trades, t) == SelectSeq(recent_trades, LAMBDA r : r[1] >= t - 1)

RECURSIVE SumPV(_)
SumPV(recent_trades) ==
    IF recent_trades = <<>> THEN 0
    ELSE Head(recent_trades)[2] * Head(recent_trades)[3] + SumPV(Tail(recent_trades))

RECURSIVE SumV(_)
SumV(recent_trades) ==
    IF recent_trades = <<>> THEN 0 ELSE Head(recent_trades)[3] + SumV(Tail(recent_trades))

calculate_vwap(profile) ==
    IF profile.recent_trades = <<>> \/ SumV(profile.recent_trades) = 0 THEN <<0, 1>>
    ELSE <<SumPV(profile.recent_trades), SumV(profile.recent_trades)>>

RECURSIVE TickVolumes(_, _)
TickVolumes(recent_trades, tick_size) ==
    IF recent_trades = <<>> THEN <<>>
    ELSE LET r == recent_trades[Len(recent_trades)]
         IN LevelAdd(TickVolumes(SubSeq(recent_trades, 1, Len(recent_trades) - 1), tick_size),
                     price_to_tick(r[2], tick_size), r[3])

find_hvn(profile, tick_size) ==
    IF profile.recent_trades = <<>> THEN None
    ELSE Some(tick_to_price(MaxVolumeTick(TickVolumes(profile.recent_trades, tick_size)),
                            tick_size))

\* an expansion that takes the lower neighbour when the two volumes are equal
RECURSIVE ValueAreaLoop_ties_below(_, _, _, _, _, _)
ValueAreaLoop_ties_below(levels, target_num, va_high_tick, va_low_tick, area_volume, steps) ==
    IF ~(area_volume * RateDen < target_num)
    THEN [high |-> va_high_tick, low |-> va_low_tick, area |-> area_volume, steps |-> steps]
    ELSE LET above     == next_tick_above(DOMAIN levels, va_high_tick)
             below     == next_tick_below(DOMAIN levels, va_low_tick)
             above_vol == IF above = None THEN 0 ELSE levels[Unwrap(above)]
             below_vol == IF below = None THEN 0 ELSE levels[Unwrap(below)]
             step(t, side) == [tick |-> t, side |-> side, above_vol |-> above_vol,
                               below_vol |-> below_vol, before |-> area_volume]
             up   == ValueAreaLoop_ties_below(levels, target_num, Unwrap(above), va_low_tick,
                                              area_volume + above_vol,
                                              Append(steps, step(Unwrap(above), "above")))
             down == ValueAreaLoop_ties_below(levels, target_num, va_high_tick, Unwrap(below),
                                              area_volume + below_vol,
                                              Append(steps, step(Unwrap(below), "below")))
         IN IF above = None /\ below = None
            THEN [high |-> va_high_tick, low |-> va_low_tick, area |-> area_volume,
                  steps |-> steps]
            ELSE IF above_vol > below_vol
                 THEN (IF above # None THEN up ELSE down)
                 ELSE (IF below # None THEN down ELSE up)

\* the while loop of compute_snapshot; steps keeps, for each tick added, the
\* tick, the side it was taken from, both candidate volumes and the area before
RECURSIVE ValueAreaLoop(_, _, _, _, _, _)
ValueAreaLoop(levels, target_num, va_high_tick, va_low_tick, area_volume, steps) ==
    IF ~(area_volume * RateDen < target_num)
    THEN [high |-> va_high_tick, low |-> va_low_tick, area |-> area_volume, steps |-> steps]
    ELSE LET above     == next_tick_above(DOMAIN levels, va_high_tick)
             below     == next_tick_below(DOMAIN levels, va_low_tick)
             above_vol == IF above = None THEN 0 ELSE levels[Unwrap(above)]
             below_vol == IF below = None THEN 0 ELSE levels[Unwrap(below)]
             step(t, side) == [tick |-> t, side |-> side, above_vol |-> above_vol,
                               below_vol |-> below_vol, before |-> area_volume]
             up   == ValueAreaLoop(levels, target_num, Unwrap(above), va_low_tick,
                                   area_volume + above_vol,
                                   Append(steps, step(Unwrap(above), "above")))
             down == ValueAreaLoop(levels, target_num, va_high_tick, Unwrap(below),
                                   area_volume + below_vol,
                                   Append(steps, step(Unwrap(below), "below")))
         IN IF above = None /\ below = None
            THEN [high |-> va_high_tick, low |-> va_low_tick, area |-> area_volume,
                  steps |-> steps]
            ELSE IF above_vol >= below_vol
                 THEN (IF above # None THEN up ELSE down)
                 ELSE (IF below # None THEN down ELSE up)

\* the value area of a histogram: target_volume = total_volume * value_area_pct
ValueArea(levels, total_volume, value_area_pct, poc_tick) ==
    ValueAreaLoop(levels, total_volume * value_area_pct, poc_tick, poc_tick,
                  levels[poc_tick], <<>>)

tick_size_for(vp, symbol) ==
    IF vp.symbol_tick_sizes[symbol] # None THEN Unwrap(vp.symbol_tick_sizes[symbol])
    ELSE vp.tick_size

compute_snapshot(vp, symbol, timestamp) ==
    LET profile  == Unwrap(vp.profiles[symbol])
        sym_tick == tick_size_for(vp, symbol)
        poc_tick == MaxVolumeTick(profile.levels)
        area     == ValueArea(profile.levels, profile.total_volume, vp.value_area_pct,
                              poc_tick)
    IN [symbol       |-> symbol,
        poc          |-> tick_to_price(poc_tick, sym_tick),
        vah          |-> tick_to_price(area.high, sym_tick),
        val          |-> tick_to_price(area.low, sym_tick),
        total_volume |-> profile.total_volume,
        session_high |-> profile.session_high,
        session_low  |-> profile.session_low,
        vwap         |-> calculate_vwap(profile),
        hvn          |-> find_hvn(profile, sym_tick),
        timestamp    |-> timestamp]

\* VolumeProfiler::process_trade: the profiler after the trade and the
\* snapshot returned
profile_trade(vp, trade) ==
    LET sym_tick == tick_size_for(vp, trade.symbol)
        entry    == IF vp.profiles[trade.symbol] = None
                    THEN SymbolProfile_new(trade.timestamp)
                    ELSE Unwrap(vp.profiles[trade.symbol])
        session  == IF trade.timestamp - entry.session_start > SessionResetHours
                    THEN SymbolProfile_new(trade.timestamp) ELSE entry
        updated  == [session EXCEPT
                        !.levels = LevelAdd(@, price_to_tick(trade.price, sym_tick),
                                            trade.quantity),
                        !.total_volume = @ + trade.quantity,
                        !.recent_trades =
                            clean_old_trades(
                                Append(@, <<trade.timestamp, trade.price, trade.quantity>>),
                                trade.timestamp),
                        !.session_high = IF trade.price > @ THEN trade.price ELSE @,
                        !.session_low = IF trade.price < @ \/ @ = DecimalMax
                                        THEN trade.price ELSE @]
        after    == [vp EXCEPT !.profiles[trade.symbol] = Some(updated)]
    IN [vp  |-> after,
        ret |-> IF Cardinality(DOMAIN updated.levels) < 3 THEN None
                ELSE Some(compute_snapshot(after, trade.symbol, trade.timestamp))]

\* VolumeProfiler::new with the configured tick size and value area
VolumeProfiler_new(tick_size, value_area_pct) ==
    [tick_size |-> tick_size, value_area_pct |-> value_area_pct,
     symbol_tick_sizes |-> [s \in Symbols |-> None],
     profiles |-> [s \in Symbols |-> None]]

\* the profiler before any trade, with the trades fed and the last return value
\* the profiler before any trade, with the number of trades fed, the
\* timestamp of the last one and the last return value
Profiler(tick_size, value_area_pct) ==
    [vp |-> VolumeProfiler_new(tick_size, value_area_pct), n |-> 0, clock |-> 0,
     ret |-> None, inserted |-> [s \in Symbols |-> <<>>]]

ProfilerStart == Profiler(DefaultTickSize, DefaultValueAreaPct)

(***************************************************************************)
(* order_flow.rs: OrderFlowTracker.  Volumes are whole quantities, bar     *)
(* close times are minutes.  A quotient of Decimals (imbalance_ratio,      *)
(* avg_bar_volume, volume_burst_ratio) is kept as the pair                 *)
(* <<numerator, denominator>> and compared by cross-multiplication.  The   *)
(* maps start empty; a symbol without an entry reads as 0 or as <<>>,      *)
(* which is what every lookup of the code makes of a missing entry.        *)
(***************************************************************************)
AbsorptionDeltaRatioNum == 150   \* order_flow.absorption_delta_ratio = 1.5
MaxPriceDeltaTicks == 2          \* order_flow.max_price_delta_ticks
VolumeBaselineBars == 5          \* order_flow.volume_baseline_bars.max(5)
VolumeBurstMultiplierNum == 120  \* order_flow.volume_burst_multiplier = 1.2
RecentDeltasCap == 50            \* deltas.len() > 50
MinBurstBars == 5                \* v.len() >= 5
CvdWindowMinutes == 1            \* Duration::try_minutes(1)
CvdHistoryMinutes == 5           \* Duration::try_minutes(5)
RapidFactor == 5                 \* avg_abs_delta * 5
MaxImbalance == 999              \* Decimal::from(999)

OrderFlowTracker_new ==
    [cvd            |-> [s \in Symbols |-> 0],
     recent_deltas  |-> [s \in Symbols |-> <<>>],
     recent_volumes |-> [s \in Symbols |-> <<>>],
     cvd_history    |-> [s \in Symbols |-> <<>>]]

RECURSIVE SumAbs(_)
SumAbs(s) == IF s = <<>> THEN 0 ELSE Abs(Head(s)) + SumAbs(Tail(s))

\* RangeBar::delta
delta(bar) == bar.buy_volume - bar.sell_volume

\* the value pushed, then the oldest entries dropped beyond the cap
PushCapped(s, v, cap) ==
    LET pushed == Append(s, v)
    IN IF Len(pushed) > cap THEN Tail(pushed) ELSE pushed

get_cvd_1min_change(tracker, symbol, t) ==
    LET history     == tracker.cvd_history[symbol]
        one_min_ago == t - CvdWindowMinutes
        current_cvd == tracker.cvd[symbol]
        older       == {i \in DOMAIN history : history[i][1] <= one_min_ago}
        cvd_1min_ago == IF older = {} THEN current_cvd ELSE history[MaxOf(older)][2]
        cvd_change  == current_cvd - cvd_1min_ago
        deltas      == tracker.recent_deltas[symbol]
        \* cvd_change against avg_abs_delta * 5, both sides times deltas.len()
        threshold   == SumAbs(deltas) * RapidFactor
    IN IF history = <<>> THEN [change |-> 0, drop |-> FALSE, rise |-> FALSE]
       ELSE IF deltas = <<>> THEN [change |-> cvd_change, drop |-> FALSE, rise |-> FALSE]
       ELSE [change |-> cvd_change,
             drop   |-> cvd_change * Len(deltas) < -threshold,
             rise   |-> cvd_change * Len(deltas) > threshold]

clean_cvd_history(history, t) ==
    SelectSeq(history, LAMBDA h : h[1] >= t - CvdHistoryMinutes)

get_volume_burst_metrics(tracker, symbol, current_volume) ==
    LET volumes == tracker.recent_volumes[symbol]
        sum     == SumSeq(volumes)
    IN IF Len(volumes) < MinBurstBars
       THEN [avg |-> <<0, 1>>, ratio |-> <<0, 1>>, burst |-> FALSE]
       ELSE IF sum <= 0
       THEN [avg |-> <<sum, Len(volumes)>>, ratio |-> <<0, 1>>, burst |-> FALSE]
       ELSE [avg   |-> <<sum, Len(volumes)>>,
             ratio |-> <<current_volume * Len(volumes), sum>>,
             burst |-> current_volume * Len(volumes) * RateDen
                           >= VolumeBurstMultiplierNum * sum]

\* the side a footprint level shows absorbed, if any
LevelAbsorption(level, price_delta_abs) ==
    IF level.bid_volume > 0 /\ level.ask_volume > 0
          /\ price_delta_abs <= Px(MaxPriceDeltaTicks)
    THEN IF level.bid_volume * RateDen > AbsorptionDeltaRatioNum * level.ask_volume
         THEN Some("Sell")
         ELSE IF level.ask_volume * RateDen > AbsorptionDeltaRatioNum * level.bid_volume
         THEN Some("Buy")
         ELSE None
    ELSE None

\* the first level, in key order, that shows absorption (the keys of a bar are
\* decimal strings of one width, so their order is the order of the prices)
detect_absorption(bar) ==
    LET price_delta_abs == Abs(bar.close - bar.open)
        hits == {k \in DOMAIN bar.footprint :
                     LevelAbsorption(bar.footprint[k], price_delta_abs) # None}
    IN IF hits = {} THEN [detected |-> FALSE, side |-> None]
       ELSE [detected |-> TRUE,
             side |-> LevelAbsorption(bar.footprint[MinOf(hits)], price_delta_abs)]

imbalance_ratio(bar) ==
    IF bar.sell_volume > 0 THEN <<bar.buy_volume, bar.sell_volume>>
    ELSE IF bar.buy_volume > 0 THEN <<MaxImbalance, 1>>
    ELSE <<1, 1>>

\* the metrics of a bar, read from the tracker the bar has been added to
OrderFlowMetrics(tracker, bar) ==
    LET absorption == detect_absorption(bar)
        change     == get_cvd_1min_change(tracker, bar.symbol, bar.close_time)
        burst      == get_volume_burst_metrics(tracker, bar.symbol, bar.volume)
    IN [symbol              |-> bar.symbol,
        cvd                 |-> tracker.cvd[bar.symbol],
        bar_delta           |-> delta(bar),
        absorption_detected |-> absorption.detected,
        absorption_side     |-> absorption.side,
        imbalance_ratio     |-> imbalance_ratio(bar),
        cvd_1min_change     |-> change.change,
        cvd_rapid_drop      |-> change.drop,
        cvd_rapid_rise      |-> change.rise,
        avg_bar_volume      |-> burst.avg,
        volume_burst_ratio  |-> burst.ratio,
        volume_burst        |-> burst.burst]

\* a tracker that rebuilds the CVD from the history it still holds
analyze_bar_from_history(tracker, bar) ==
    LET kept    == clean_cvd_history(tracker.cvd_history[bar.symbol], bar.close_time)
        cvd     == (IF kept = <<>> THEN 0 ELSE kept[Len(kept)][2]) + delta(bar)
        updated == [tracker EXCEPT
                       !.cvd[bar.symbol] = cvd,
                       !.cvd_history[bar.symbol] = Append(kept, <<bar.close_time, cvd>>),
                       !.recent_deltas[bar.symbol] = PushCapped(@, delta(bar), RecentDeltasCap),
                       !.recent_volumes[bar.symbol] =
                           PushCapped(@, bar.volume, VolumeBaselineBars)]
    IN [tracker |-> updated, ret |-> OrderFlowMetrics(updated, bar)]

\* OrderFlowTracker::analyze_bar: the tracker afterwards and the metrics
analyze_bar(tracker, bar) ==
    LET cvd     == tracker.cvd[bar.symbol] + delta(bar)
        updated == [tracker EXCEPT
                       !.cvd[bar.symbol] = cvd,
                       !.cvd_history[bar.symbol] =
                           clean_cvd_history(Append(@, <<bar.close_time, cvd>>),
                                             bar.close_time),
                       !.recent_deltas[bar.symbol] = PushCapped(@, delta(bar), RecentDeltasCap),
                       !.recent_volumes[bar.symbol] =
                           PushCapped(@, bar.volume, VolumeBaselineBars)]
    IN [tracker |-> updated, ret |-> OrderFlowMetrics(updated, bar)]

\* the tracker before any bar, with the bars analysed and the last metrics
OrderFlowStart == [tracker |-> OrderFlowTracker_new, bars |-> <<>>, ret |-> None]
(***************************************************************************)
(* strategy.rs: StrategyEngine.  Prices are in hundredths; the vwap of a   *)
(* profile and the ratios of a flow are pairs <<numerator, denominator>>.  *)
(* A signal is [symbol, side, setup, entry_price, stop_loss, take_profit]. *)
(* The rolling backtest needs more than advanced_tuning_lookahead_bars +   *)
(* 20 samples of a symbol before it returns a ratio; the model stays below *)
(* that, so no symbol has a tuned ratio.                                   *)
(***************************************************************************)
EnabledSetups == <<"AAA", "MomentumSqueeze", "AbsorptionReversal", "AdvancedOrderFlow">>
AaaPocDistanceTicks == 2            \* strategy.aaa_poc_distance_ticks
MomentumLookbackBars == 1           \* strategy.momentum_lookback_bars
MinDeltaConfirmation == 0           \* strategy.min_delta_confirmation
AdvancedZoneTicks == 5              \* strategy.advanced_zone_ticks
AdvancedMinImbalanceNum == 180      \* strategy.advanced_min_imbalance_ratio = 1.8
AdvancedMinCvdChange == 5           \* strategy.advanced_min_cvd_1min_change
AdvancedMinBarRangePctNum == 3      \* strategy.advanced_min_bar_range_pct = 0.03
AdvancedCooldownBars == 2           \* strategy.advanced_cooldown_bars
AdvancedRequireReversalBar == TRUE  \* strategy.advanced_require_reversal_bar
AdvancedMinVolumeBurstNum == 180    \* strategy.advanced_min_volume_burst_ratio = 1.8
AdvancedAutoTune == TRUE            \* strategy.advanced_auto_tune_volume_burst
TuneEveryBars == 5                  \* saturating_sub(*last) < 5
RecentBarsCap == 100                \* bars.len() > 100
SamplesCap == 400                   \* samples.len() > 400
DefaultStopTicks == 1               \* risk.default_stop_ticks
DefaultTargetMultiplierNum == 200   \* risk.default_target_multiplier = 2.0

StrategyEngine_new ==
    [profiles                 |-> [s \in Symbols |-> None],
     recent_bars              |-> [s \in Symbols |-> <<>>],
     latest_flow              |-> [s \in Symbols |-> None],
     advanced_samples         |-> [s \in Symbols |-> <<>>],
     tuned_volume_burst_ratio |-> [s \in Symbols |-> None],
     last_burst_tune_bar      |-> [s \in Symbols |-> None],
     last_advanced_signal_bar |-> [s \in Symbols |-> None]]

\* an update that keeps the first profile of a symbol
update_profile_once(st, profile) ==
    IF st.profiles[profile.symbol] # None THEN st
    ELSE [st EXCEPT !.profiles[profile.symbol] = Some(profile)]

update_profile(st, profile) == [st EXCEPT !.profiles[profile.symbol] = Some(profile)]
update_flow(st, flow) == [st EXCEPT !.latest_flow[flow.symbol] = Some(flow)]

TradeSignal(symbol, side, setup, entry, stop, target) ==
    [symbol |-> symbol, side |-> side, setup |-> setup, entry_price |-> entry,
     stop_loss |-> stop, take_profit |-> target]

\* u64::saturating_sub
saturating_sub(a, b) == IF a >= b THEN a - b ELSE 0

\* a quotient <<n, d>> with d > 0 against a price or a ratio in hundredths
QuotientGt(q, x) == q[1] > x * q[2]
QuotientLt(q, x) == q[1] < x * q[2]
RatioAtLeast(q, num) == q[1] * RateDen >= num * q[2]

\* check_aaa: absorption next to the value area
check_aaa(st, bar) ==
    IF st.profiles[bar.symbol] = None \/ st.latest_flow[bar.symbol] = None THEN None
    ELSE LET profile == Unwrap(st.profiles[bar.symbol])
             flow    == Unwrap(st.latest_flow[bar.symbol])
             distance_threshold == Px(AaaPocDistanceTicks)
             stop_distance      == Px(DefaultStopTicks)
         IN IF ~flow.absorption_detected THEN None
            ELSE IF flow.absorption_side = Some("Sell")
                    /\ Abs(bar.close - profile.val) <= distance_threshold
            THEN Some(TradeSignal(bar.symbol, "Buy", "AAA", bar.close,
                                  bar.close - stop_distance, profile.vah))
            ELSE IF flow.absorption_side = Some("Buy")
                    /\ Abs(bar.close - profile.vah) <= distance_threshold
            THEN Some(TradeSignal(bar.symbol, "Sell", "AAA", bar.close,
                                  bar.close + stop_distance, profile.val))
            ELSE None

\* entry + stop_distance * target_mult
TargetDistance(stop_distance) == (stop_distance * DefaultTargetMultiplierNum) \div RateDen

check_momentum_squeeze(st, bar) ==
    IF st.profiles[bar.symbol] = None \/ st.latest_flow[bar.symbol] = None THEN None
    ELSE LET profile == Unwrap(st.profiles[bar.symbol])
             flow    == Unwrap(st.latest_flow[bar.symbol])
             bars    == st.recent_bars[bar.symbol]
             stop_distance == Px(DefaultStopTicks)
         IN IF Len(bars) < MomentumLookbackBars THEN None
            ELSE IF bar.close > profile.session_high /\ flow.bar_delta > MinDeltaConfirmation
            THEN Some(TradeSignal(bar.symbol, "Buy", "MomentumSqueeze", bar.close,
                                  bar.close - stop_distance,
                                  bar.close + TargetDistance(stop_distance)))
            ELSE IF bar.close < profile.session_low /\ flow.bar_delta < -MinDeltaConfirmation
            THEN Some(TradeSignal(bar.symbol, "Sell", "MomentumSqueeze", bar.close,
                                  bar.close + stop_distance,
                                  bar.close - TargetDistance(stop_distance)))
            ELSE None

check_absorption_reversal(st, bar) ==
    IF st.latest_flow[bar.symbol] = None THEN None
    ELSE LET flow == Unwrap(st.latest_flow[bar.symbol])
             stop_distance == Px(DefaultStopTicks)
         IN IF ~flow.absorption_detected \/ flow.absorption_side = None THEN None
            ELSE IF flow.absorption_side = Some("Sell")
            THEN Some(TradeSignal(bar.symbol, "Buy", "AbsorptionReversal", bar.close,
                                  bar.close - stop_distance,
                                  bar.close + TargetDistance(stop_distance)))
            ELSE Some(TradeSignal(bar.symbol, "Sell", "AbsorptionReversal", bar.close,
                                  bar.close + stop_distance,
                                  bar.close - TargetDistance(stop_distance)))

min_volume_burst_ratio_for(st, symbol) ==
    IF st.tuned_volume_burst_ratio[symbol] # None
    THEN Unwrap(st.tuned_volume_burst_ratio[symbol])
    ELSE AdvancedMinVolumeBurstNum

advanced_side_without_burst(bar, flow, profile) ==
    LET zone_threshold == Px(AdvancedZoneTicks)
        near_val == Abs(bar.close - profile.val) <= zone_threshold
        near_vah == Abs(bar.close - profile.vah) <= zone_threshold
        near_hvn == profile.hvn # None /\ Abs(bar.close - Unwrap(profile.hvn)) <= zone_threshold
        reversal_ok_long  == ~AdvancedRequireReversalBar \/ bar.close > bar.open
        reversal_ok_short == ~AdvancedRequireReversalBar \/ bar.close < bar.open
        \* 1 / imbalance_ratio >= min_imbalance, or 999 when the ratio is 0
        sell_to_buy_ok == IF flow.imbalance_ratio[1] > 0
                          THEN flow.imbalance_ratio[2] * RateDen
                                   >= AdvancedMinImbalanceNum * flow.imbalance_ratio[1]
                          ELSE MaxImbalance * RateDen >= AdvancedMinImbalanceNum
    IN IF /\ (near_val \/ near_hvn)
          /\ flow.cvd_rapid_drop
          /\ flow.absorption_detected
          /\ flow.absorption_side = Some("Sell")
          /\ sell_to_buy_ok
          /\ reversal_ok_long
          /\ QuotientGt(profile.vwap, bar.close)
          /\ QuotientLt(profile.vwap, profile.vah)
       THEN Some("Buy")
       ELSE IF /\ (near_vah \/ near_hvn)
               /\ flow.cvd_rapid_rise
               /\ flow.absorption_detected
               /\ flow.absorption_side = Some("Buy")
               /\ RatioAtLeast(flow.imbalance_ratio, AdvancedMinImbalanceNum)
               /\ reversal_ok_short
               /\ QuotientLt(profile.vwap, bar.close)
               /\ QuotientGt(profile.vwap, profile.val)
       THEN Some("Sell")
       ELSE None

\* check_advanced_orderflow after the cooldown: the side of the signal, if any
advanced_side(st, bar) ==
    IF st.profiles[bar.symbol] = None \/ st.latest_flow[bar.symbol] = None THEN None
    ELSE LET profile   == Unwrap(st.profiles[bar.symbol])
             flow      == Unwrap(st.latest_flow[bar.symbol])
             bar_range == Abs(bar.high - bar.low)
             \* bar_range / close * 100 < min_bar_range_pct; 0 when close <= 0
             range_too_small ==
                 IF bar.close > 0
                 THEN bar_range * 100 * RateDen < AdvancedMinBarRangePctNum * bar.close
                 ELSE 0 < AdvancedMinBarRangePctNum
         IN IF range_too_small THEN None
            ELSE IF Abs(flow.cvd_1min_change) < AdvancedMinCvdChange THEN None
            ELSE IF ~flow.volume_burst
                    \/ ~RatioAtLeast(flow.volume_burst_ratio,
                                     min_volume_burst_ratio_for(st, bar.symbol))
            THEN None
            ELSE advanced_side_without_burst(bar, flow, profile)

\* the signal of a side: the stop is entry * 0.996 or entry * 1.004, which is
\* a whole number of hundredths for the closes of the model
AdvancedSignal(st, bar, side) ==
    LET profile == Unwrap(st.profiles[bar.symbol])
    IN IF side = "Buy"
       THEN TradeSignal(bar.symbol, "Buy", "AdvancedOrderFlow", bar.close,
                        (bar.close * 996) \div 1000, profile.vah)
       ELSE TradeSignal(bar.symbol, "Sell", "AdvancedOrderFlow", bar.close,
                        (bar.close * 1004) \div 1000, profile.val)

\* a check that emits whenever the conditions hold, cooldown or not
check_advanced_orderflow_no_cooldown(st, bar) ==
    LET side == advanced_side(st, bar)
    IN IF side = None THEN [st |-> st, ret |-> None]
       ELSE [st  |-> [st EXCEPT !.last_advanced_signal_bar[bar.symbol] = Some(bar.bar_index)],
             ret |-> Some(AdvancedSignal(st, bar, Unwrap(side)))]

\* check_advanced_orderflow: the engine afterwards and the signal
check_advanced_orderflow(st, bar) ==
    LET last == st.last_advanced_signal_bar[bar.symbol]
        side == advanced_side(st, bar)
    IN IF st.profiles[bar.symbol] = None \/ st.latest_flow[bar.symbol] = None
       THEN [st |-> st, ret |-> None]
       ELSE IF last # None
               /\ saturating_sub(bar.bar_index, Unwrap(last)) < AdvancedCooldownBars
       THEN [st |-> st, ret |-> None]
       ELSE IF side = None THEN [st |-> st, ret |-> None]
       ELSE [st  |-> [st EXCEPT !.last_advanced_signal_bar[bar.symbol] = Some(bar.bar_index)],
             ret |-> Some(AdvancedSignal(st, bar, Unwrap(side)))]

\* maybe_tune_volume_burst_ratio while backtest_best_volume_burst returns None
maybe_tune_volume_burst_ratio(st, symbol, current_bar_index) ==
    IF ~AdvancedAutoTune THEN st
    ELSE IF st.last_burst_tune_bar[symbol] # None
            /\ saturating_sub(current_bar_index, Unwrap(st.last_burst_tune_bar[symbol]))
                   < TuneEveryBars
    THEN st
    ELSE [st EXCEPT !.last_burst_tune_bar[symbol] = Some(current_bar_index)]

\* the histories of process_bar, before the setups are checked
RecordBar(st, bar) ==
    LET pushed == [st EXCEPT !.recent_bars[bar.symbol] = PushCapped(@, bar, RecentBarsCap)]
    IN IF st.latest_flow[bar.symbol] # None /\ st.profiles[bar.symbol] # None
       THEN maybe_tune_volume_burst_ratio(
                [pushed EXCEPT !.advanced_samples[bar.symbol] =
                     PushCapped(@, [bar     |-> bar,
                                    flow    |-> Unwrap(st.latest_flow[bar.symbol]),
                                    profile |-> Unwrap(st.profiles[bar.symbol])],
                                SamplesCap)],
                bar.symbol, bar.bar_index)
       ELSE pushed

\* one enabled setup checked: the engine afterwards and the signals so far
CheckSetup(acc, setup, bar) ==
    LET one(sig) == IF sig = None THEN acc
                    ELSE [acc EXCEPT !.signals = Append(@, Unwrap(sig))]
        advanced == check_advanced_orderflow(acc.st, bar)
    IN IF setup = "AAA" THEN one(check_aaa(acc.st, bar))
       ELSE IF setup = "MomentumSqueeze" THEN one(check_momentum_squeeze(acc.st, bar))
       ELSE IF setup = "AbsorptionReversal" THEN one(check_absorption_reversal(acc.st, bar))
       ELSE IF setup = "AdvancedOrderFlow"
       THEN [st |-> advanced.st,
             signals |-> IF advanced.ret = None THEN acc.signals
                         ELSE Append(acc.signals, Unwrap(advanced.ret))]
       ELSE acc

RECURSIVE CheckSetups(_, _, _)
CheckSetups(acc, setups, bar) ==
    IF setups = <<>> THEN acc
    ELSE CheckSetups(CheckSetup(acc, Head(setups), bar), Tail(setups), bar)

\* StrategyEngine::process_bar: the engine afterwards and the signals
process_bar(st, bar) ==
    CheckSetups([st |-> RecordBar(st, bar), signals |-> <<>>], EnabledSetups, bar)

\* the strategy before any bar, with one record per bar processed
StrategyStart == [st |-> StrategyEngine_new, log |-> <<>>]

(***************************************************************************)
(* main.rs: the tasks and the channels between them.                       *)
(*   pipe.task          the state of each spawned task                     *)
(*   pipe.shutdown      the watch channel's value                          *)
(*   pipe.market_proc   the broadcast channel as the processing task's     *)
(*                      subscription sees it; a trade is its number        *)
(*   pipe.market_sim    the same for the simulator's subscription          *)
(*   pipe.processing_q  the processing mpsc channel                        *)
(*   pipe.pending       the sends the processing task still has to make    *)
(*                      for the trade it is handling                       *)
(*   pipe.published, pipe.proc_current, pipe.sim_applied, pipe.sim_last,   *)
(*   pipe.signalled, pipe.executed: history of which trades were           *)
(*   published, consumed, applied, and had signals generated and executed  *)
(* The execution channel is execution_q.                                   *)
(***************************************************************************)
MaxTrades == 2           \* trades the feed publishes
BroadcastCap == 2        \* capacity of the market broadcast channel in the model
ProcCap == 1             \* capacity of the processing channel in the model

Tasks == {"ws", "processing", "sim", "discord", "hourly", "reselection"}

PipeStart(discord_enabled) ==
    [task          |-> [t \in Tasks |-> IF t = "discord" /\ ~discord_enabled
                                        THEN "not spawned" ELSE "running"],
     shutdown      |-> FALSE,
     market_proc   |-> <<>>,
     market_sim    |-> <<>>,
     processing_q  |-> <<>>,
     pending       |-> <<>>,
     published     |-> 0,
     proc_current  |-> 0,
     sim_applied   |-> 0,
     sim_last      |-> 0,
     signalled     |-> {},
     executed      |-> {}]

\* broadcast::Sender::send never blocks: a full ring overwrites its oldest entry,
\* which a lagging receiver then misses
broadcast_send(ring, trade) ==
    IF Len(ring) < BroadcastCap THEN Append(ring, trade) ELSE Append(Tail(ring), trade)

\* what the processing task sends for one trade: nothing, a refreshed profile,
\* or a completed bar with its flow and a signal
DerivedEvents ==
    { <<>>, <<"VolumeProfile">>, <<"OrderFlow", "NewBar", "Signal">> }

Tagged(events, trade) == [k \in DOMAIN events |-> [type |-> events[k], trade |-> trade]]

\* a processing task that hands its sends to the runtime instead of awaiting them
AtSelectWithoutAwait(pending) == TRUE

\* the processing task takes the next market event only from its select, that
\* is, when every send for the previous one has returned
AtSelect(pending) == pending = <<>>

\* mpsc::Receiver::recv hands out the oldest queued event
mpsc_recv(queue) == [event |-> Head(queue), queue |-> Tail(queue)]

\* a receiver that is dropped closes the channel: sends then fail at once
ProcessingRxClosed(P) == P.task["sim"] = "exited"
ExecutionRxClosed(P) == P.task["discord"] = "exited"

(***************************************************************************)
(* The engine as a state machine.                                          *)
(***************************************************************************)
Engine ==
    [pm |-> positions, rm |-> risk, books |-> order_books,
     profiles |-> latest_profiles, hp |-> hourly_performance,
     ss |-> symbol_stats, tx |-> execution_q, hs |-> hist]

SetEngine(E) ==
    /\ positions' = E.pm
    /\ risk' = E.rm
    /\ order_books' = E.books
    /\ latest_profiles' = E.profiles
    /\ hourly_performance' = E.hp
    /\ symbol_stats' = E.ss
    /\ execution_q' = E.tx
    /\ hist' = E.hs

Init ==
    /\ positions = <<>>
    /\ risk = [balance |-> InitialBalance, daily_pnl |-> 0, daily_halted |-> FALSE,
               open_positions |-> [s \in Symbols |-> <<>>]]
    /\ order_books = [s \in Symbols |-> None]
    /\ latest_profiles = [s \in Symbols |-> None]
    /\ hourly_performance = [k \in Symbols \X Hours |-> <<>>]
    /\ symbol_stats = [s \in Symbols |-> ZeroStats]
    /\ execution_q = <<>>
    /\ now = 0
    /\ pipe = PipeStart(TRUE)
    /\ range_bars = BarsStart
    /\ volume_profiler = ProfilerStart
    /\ order_flow = OrderFlowStart
    /\ strategy = StrategyStart
    /\ last_gate = "none"
    /\ hist = [opened |-> 0, refused |-> FALSE, daily_limit_sent |-> FALSE,
               risk_closed |-> <<>>, stop_moved |-> <<>>]

\* ProcessingEvent::Signal
OnSignal(symbol, shape) ==
    LET r == handle_processing_event(
                 Engine, [type |-> "Signal", signal |-> Signal(symbol, shape, now)], now)
    IN /\ r.gate = "opened" => Len(positions) < MaxPositions
       /\ SetEngine(r.E)
       /\ last_gate' = r.gate
       /\ UNCHANGED <<now, pipe, range_bars, volume_profiler, order_flow, strategy>>

\* ProcessingEvent::VolumeProfile
OnProfile(profile) ==
    LET r == handle_processing_event(
                 Engine, [type |-> "VolumeProfile", profile |-> profile], now)
    IN /\ SetEngine(r.E)
       /\ last_gate' = r.gate
       /\ UNCHANGED <<now, pipe, range_bars, volume_profiler, order_flow, strategy>>

\* MarketEvent::Trade
OnTrade(symbol, price) ==
    /\ SetEngine(on_trade(Engine, [symbol |-> symbol, price |-> price,
                                   timestamp |-> now]))
    /\ last_gate' = "none"
    /\ UNCHANGED <<now, pipe, range_bars, volume_profiler, order_flow, strategy>>

\* MarketEvent::Depth
OnDepth(depth) ==
    /\ SetEngine(on_depth(Engine, depth))
    /\ last_gate' = "none"
    /\ UNCHANGED <<now, pipe, range_bars, volume_profiler, order_flow, strategy>>

\* discord.rs run: the notification sink takes one event off the channel
DiscordRecv ==
    /\ execution_q # <<>>
    /\ execution_q' = Tail(execution_q)
    /\ last_gate' = "none"
    /\ UNCHANGED <<positions, risk, order_books, latest_profiles,
                   hourly_performance, symbol_stats, now, pipe, range_bars, volume_profiler, order_flow, strategy, hist>>

\* a second passes
Tick ==
    /\ now < MaxTime
    /\ now' = now + 1
    /\ last_gate' = "none"
    /\ UNCHANGED <<positions, risk, order_books, latest_profiles,
                   hourly_performance, symbol_stats, execution_q, pipe, range_bars, volume_profiler, order_flow, strategy, hist>>

Next ==
    \/ \E sig \in SignalFeed : OnSignal(sig[1], sig[2])
    \/ \E profile \in ProfileInputs : OnProfile(profile)
    \/ \E trade \in TradeInputs : OnTrade(trade[1], trade[2])
    \/ \E depth \in DepthInputs : OnDepth(depth)
    \/ DiscordRecv
    \/ Tick

Spec == Init /\ [][Next]_vars

(***************************************************************************)
(* Properties of the engine.                                               *)
(***************************************************************************)
OpenIds == {i \in DOMAIN positions : positions[i].status = "Open"}
FinalizedIds == {i \in DOMAIN positions : positions[i].status # "Open"}

RECURSIVE SumPnl(_, _)
SumPnl(ps, ids) ==
    IF ids = {} THEN 0
    ELSE LET i == CHOOSE x \in ids : TRUE
         IN ps[i].pnl + SumPnl(ps, ids \ {i})

Occurrences(seq, x) == Cardinality({k \in DOMAIN seq : seq[k] = x})

\* C1: at any time no two Open positions are on the same symbol.
OnePositionPerSymbol ==
    \A i, j \in OpenIds : positions[i].symbol = positions[j].symbol => i = j

\* a same-symbol signal has just been refused by the risk manager while trading
\* is not halted and the concurrency limit is not reached
OnePositionPerSymbolWitness ==
    /\ last_gate = "risk"
    /\ Cardinality(OpenIds) = 1
    /\ ~risk.daily_halted

MaxHaltPositions == 3    \* positions opened in the run of the daily loss limit

HaltSignals ==
    { <<"btc", Shape("Buy",  "AdvancedOrderFlow", 17, 22)>>,
      <<"eth", Shape("Sell", "AAA", 21, 18)>> }

HaltTrades == { <<"btc", Px(18)>>, <<"btc", Px(22)>>, <<"eth", Px(21)>> }

\* ProcessingEvent::Signal
HaltSignal(symbol, shape) ==
    LET r == handle_processing_event(
                 Engine, [type |-> "Signal", signal |-> Signal(symbol, shape, now)], now)
    IN /\ r.gate = "opened" => Len(positions) < MaxHaltPositions
       /\ SetEngine(r.E)
       /\ last_gate' = r.gate
       /\ UNCHANGED <<now, pipe, range_bars, volume_profiler, order_flow, strategy>>

NextHalt ==
    \/ \E sig \in HaltSignals : HaltSignal(sig[1], sig[2])
    \/ \E trade \in HaltTrades : OnTrade(trade[1], trade[2])
    \/ \E depth \in DepthInputs : OnDepth(depth)
    \/ DiscordRecv
    \/ Tick

SpecHalt == Init /\ [][NextHalt]_vars

\* daily_pnl < -daily_limit
BelowDailyLimit(rm) == rm.daily_pnl * RateDen < -(InitialBalance * DailyLossLimitNum)

\* C38: no event clears the halted flag: once a close has left daily_pnl below
\* -daily_limit trading is halted, it stays halted through every later event,
\* later closes that bring daily_pnl back above the limit included, every
\* signal is then refused by can_trade, and no position is opened any more.
HaltIsPermanent ==
    [][/\ BelowDailyLimit(risk') => risk'.daily_halted
       /\ risk.daily_halted =>
              /\ risk'.daily_halted
              /\ Len(positions') = Len(positions)
              /\ \A sig \in SignalInputs :
                     /\ ~can_trade(risk, Signal(sig[1], sig[2], now))
                     /\ execute_signal(Engine, Signal(sig[1], sig[2], now), now).gate
                            # "opened"]_vars

\* trading is halted, daily_pnl is back above the limit, and a signal that
\* passed the quality and expectancy gates has just been refused by the risk
\* manager on a symbol without an open position
HaltIsPermanentWitness ==
    /\ risk.daily_halted
    /\ ~BelowDailyLimit(risk)
    /\ last_gate = "risk"
    /\ OpenIds = {}

\* C3: the balance is the initial balance plus the pnl of every Closed or
\* Liquidated position, and each of them has been passed to
\* RiskManager.close_position exactly once (and no other position has).
BalanceIsRealizedPnl ==
    /\ risk.balance = InitialBalance + SumPnl(positions, FinalizedIds)
    /\ \A i \in DOMAIN positions :
           Occurrences(hist.risk_closed, i) = IF i \in FinalizedIds THEN 1 ELSE 0

BalanceIsRealizedPnlWitness ==
    /\ \E i \in FinalizedIds : positions[i].status = "Liquidated"
    /\ \E i \in FinalizedIds : positions[i].status = "Closed"
    /\ risk.balance # InitialBalance

\* C5: what one trade does to a position that is Open on the trade's symbol.
SoftStopDue(p, price, t) ==
    /\ p.setup = "AdvancedOrderFlow"
    /\ t - p.entry_time >= SoftStopSeconds
    /\ ~p.tp1_filled
    /\ IF p.side = "Buy"
       THEN price * RateDen <= p.entry_price * (RateDen - SoftStopDrawdownPct)
       ELSE price * RateDen >= p.entry_price * (RateDen + SoftStopDrawdownPct)

StopOrTargetHit(p, price) ==
    IF p.side = "Buy" THEN price <= p.stop_loss \/ price >= p.take_profit
                      ELSE price >= p.stop_loss \/ price <= p.take_profit

TradeOutcome(p, q, price, t) ==
    IF should_liquidate(p, price)
        THEN q.status = "Liquidated" /\ q.exit_price = Some(p.liquidation_price)
    ELSE IF SoftStopDue(p, price, t)
        THEN q.status = "Closed" /\ q.exit_price = Some(price)
    ELSE IF StopOrTargetHit(p, price)
        THEN /\ q.status = "Closed"
             /\ q.exit_price \in {Some(p.stop_loss), Some(p.take_profit)}
             /\ q.stop_loss = p.stop_loss
    ELSE q.status = "Open"

\* C5: a trade is handled in the order liquidation, multi-stage exits, standard
\* exits, break-even: whatever trade arrives in a reachable state, a position
\* whose liquidation price and stop are both reached ends Liquidated at its
\* liquidation price, a position due for a soft stop leaves at the trade price,
\* and only a position that is still Open after the exits has its stop moved.
TradeOrder ==
    \A symbol \in Symbols, price \in TradePrices :
        LET after == on_trade(Engine, [symbol |-> symbol, price |-> price,
                                       timestamp |-> now]).pm
        IN \A i \in DOMAIN positions :
               (positions[i].status = "Open" /\ positions[i].symbol = symbol) =>
                   /\ TradeOutcome(positions[i], after[i], price, now)
                   /\ after[i].stop_loss # positions[i].stop_loss
                          => after[i].status = "Open"

\* a short whose stop lies inside its liquidation price has been liquidated
TradeOrderWitness ==
    \E i \in DOMAIN positions :
        /\ positions[i].status = "Liquidated"
        /\ positions[i].side = "Sell"
        /\ positions[i].stop_loss <= positions[i].liquidation_price
        /\ positions[i].exit_price = Some(positions[i].liquidation_price)

\* C6: every position that was opened has had its PositionOpened event
\* accepted by the execution channel.
OpenedEventPerPosition == hist.opened = Len(positions)

\* C7: a signal that fails any gate changes nothing.
PassesAllGates(symbol, shape) ==
    LET signal    == Signal(symbol, shape, now)
        quantity  == calculate_position_size(risk, signal)
        validated == validate_order(signal.entry_price, quantity)
    IN /\ passes_execution_quality_filters(order_books, signal)
       /\ passes_expectancy_filter(hourly_performance, signal)
       /\ can_trade(risk, signal)
       /\ quantity > 0
       /\ validated.ok
       /\ passes_slippage_model(order_books, symbol, signal.side,
                                validated.value[1], validated.value[2])

\* C7: whatever signal arrives in a reachable state, if it fails a gate then
\* handling it leaves the positions, the risk manager (index, balance, daily
\* pnl, halt flag), the execution channel, the order books, the profiles and
\* the expectancy and symbol statistics as they were.
RejectionHasNoEffect ==
    \A sig \in SignalInputs :
        ~PassesAllGates(sig[1], sig[2]) =>
            execute_signal(Engine, Signal(sig[1], sig[2], now), now).E = Engine

RejectionHasNoEffectWitness ==
    /\ last_gate \in {"quality", "expectancy", "risk", "size", "filter", "slippage"}
    /\ positions # <<>>

\* C10: the execution channel never refuses an event.
NoEventRefused == ~hist.refused

(***************************************************************************)
(* The PositionManager driven alone: its operations in any order, with any *)
(* arguments, on ids of open, finalized and unknown positions.  hist keeps *)
(* the legs each position was closed in (quantity and exit price, as the   *)
(* operation reported them), how often an operation returned the position  *)
(* as closed, and whether an operation was called on it after it was       *)
(* finalized.                                                              *)
(***************************************************************************)
PMSignals ==
    { Signal("btc", Shape("Buy",  "AAA", 19, 22), 0),
      Signal("eth", Shape("Sell", "AdvancedOrderFlow", 21, 18), 0) }

PMOpenQuantities == {4}
PMCloseQuantities == {2}
PMPrices == {Px(18), Px(21), Px(22)}
PMStops == {Px(20)}
PMIds == 1 .. MaxPMPositions

Leg(quantity, exit_price) == [quantity |-> quantity, exit_price |-> exit_price]

\* a final leg for every position the operation returned as closed
RECURSIVE RecordReturned(_, _)
RecordReturned(h, returned) ==
    IF returned = <<>> THEN h
    ELSE LET p == Head(returned)
         IN RecordReturned(
                [h EXCEPT !.legs[p.id] = Append(@, Leg(p.quantity, Unwrap(p.exit_price))),
                          !.returned[p.id] = @ + 1],
                Tail(returned))

\* the operation was called on position ids that were already finalized
RecordRetried(h, ps, ids) ==
    [h EXCEPT !.retried = [i \in DOMAIN @ |->
                              @[i] \/ (i \in ids /\ ps[i].status # "Open")]]

OfSymbol(ps, symbol) == {i \in DOMAIN ps : ps[i].symbol = symbol}

UnchangedButPositions ==
    UNCHANGED <<risk, order_books, latest_profiles, hourly_performance,
                symbol_stats, execution_q, now, pipe, range_bars, volume_profiler, order_flow, strategy, last_gate>>

InitPM ==
    /\ positions = <<>>
    /\ risk = [balance |-> InitialBalance, daily_pnl |-> 0, daily_halted |-> FALSE,
               open_positions |-> [s \in Symbols |-> <<>>]]
    /\ order_books = [s \in Symbols |-> None]
    /\ latest_profiles = [s \in Symbols |-> None]
    /\ hourly_performance = [k \in Symbols \X Hours |-> <<>>]
    /\ symbol_stats = [s \in Symbols |-> ZeroStats]
    /\ execution_q = <<>>
    /\ now = 0
    /\ pipe = PipeStart(TRUE)
    /\ range_bars = BarsStart
    /\ volume_profiler = ProfilerStart
    /\ order_flow = OrderFlowStart
    /\ strategy = StrategyStart
    /\ last_gate = "none"
    /\ hist = [legs |-> <<>>, returned |-> <<>>, retried |-> <<>>]

PMOpen(signal, quantity) ==
    /\ Len(positions) < MaxPMPositions
    /\ positions' = open_position(positions, signal, quantity, now).positions
    /\ hist' = [legs |-> Append(hist.legs, <<>>),
                returned |-> Append(hist.returned, 0),
                retried |-> Append(hist.retried, FALSE)]
    /\ UnchangedButPositions

PMClosePartial(id, close_quantity, exit_price) ==
    LET r == close_partial(positions, id, close_quantity, exit_price, FeeNum)
        h == RecordRetried(hist, positions, {id})
    IN /\ positions' = r.positions
       /\ hist' = IF r.ret = None THEN h
                  ELSE [h EXCEPT !.legs[id] = Append(@, Leg(close_quantity, exit_price))]
       /\ UnchangedButPositions

PMClose(id, exit_price) ==
    LET r == close_position(positions, id, exit_price, FeeNum)
        h == RecordRetried(hist, positions, {id})
    IN /\ positions' = r.positions
       /\ hist' = IF r.ret = None THEN h ELSE RecordReturned(h, <<Unwrap(r.ret)>>)
       /\ UnchangedButPositions

PMCheckExits(symbol, current_price) ==
    LET r == check_exits(positions, symbol, current_price, FeeNum)
    IN /\ positions' = r.positions
       /\ hist' = RecordReturned(
                      RecordRetried(hist, positions, OfSymbol(positions, symbol)), r.ret)
       /\ UnchangedButPositions

PMCheckLiquidations(symbol, mark_price) ==
    LET r == check_liquidations(positions, symbol, mark_price, FeeNum)
    IN /\ positions' = r.positions
       /\ hist' = RecordReturned(
                      RecordRetried(hist, positions, OfSymbol(positions, symbol)), r.ret)
       /\ UnchangedButPositions

PMMoveStop(id, stop_price) ==
    /\ positions' = move_stop_to_break_even(positions, id, stop_price).positions
    /\ hist' = RecordRetried(hist, positions, {id})
    /\ UnchangedButPositions

PMMarkTp1(id, stop_price) ==
    /\ positions' = mark_tp1_filled(positions, id, stop_price).positions
    /\ hist' = RecordRetried(hist, positions, {id})
    /\ UnchangedButPositions

NextPM ==
    \/ \E signal \in PMSignals, quantity \in PMOpenQuantities : PMOpen(signal, quantity)
    \/ \E id \in PMIds, q \in PMCloseQuantities, price \in PMPrices :
           PMClosePartial(id, q, price)
    \/ \E id \in PMIds, price \in PMPrices : PMClose(id, price)
    \/ \E symbol \in Symbols, price \in PMPrices : PMCheckExits(symbol, price)
    \/ \E symbol \in Symbols, price \in PMPrices : PMCheckLiquidations(symbol, price)
    \/ \E id \in PMIds, stop \in PMStops : PMMoveStop(id, stop)
    \/ \E id \in PMIds, stop \in PMStops : PMMarkTp1(id, stop)

SpecPM == InitPM /\ [][NextPM]_vars

\* C2: a position that is Closed or Liquidated is never changed by an
\* operation of the PositionManager (status, pnl, quantity, exit price and
\* stop included), and no position is returned as closed more than once.
FinalizedIsFrozen ==
    [][/\ \A i \in DOMAIN positions :
              positions[i].status # "Open" => positions'[i] = positions[i]
       /\ \A i \in DOMAIN hist'.returned : hist'.returned[i] <= 1]_vars

\* an operation has been called on a position after it was finalized
FinalizedIsFrozenWitness ==
    \E i \in DOMAIN positions :
        /\ positions[i].status # "Open"
        /\ hist.retried[i]
        /\ hist.returned[i] = 1

\* the net pnl of the legs a position was closed in
RECURSIVE LegsPnl(_, _)
LegsPnl(p, legs) ==
    IF legs = <<>> THEN 0
    ELSE LET leg  == Head(legs)
             sign == IF p.side = "Buy" THEN 1 ELSE -1
         IN Money(sign * (leg.exit_price - p.entry_price) * leg.quantity)
              - (p.entry_price * leg.quantity + leg.exit_price * leg.quantity) * FeeNum
              + LegsPnl(p, Tail(legs))

\* C4: the pnl of a finalized position is the sum over its legs of
\* side * (exit - entry) * quantity less the fee on the leg's entry and exit
\* notional, whatever operations closed it.
PnlIsSumOfLegs ==
    \A i \in DOMAIN positions :
        positions[i].status # "Open" =>
            positions[i].pnl = LegsPnl(positions[i], hist.legs[i])

(***************************************************************************)
(* The pipeline as a state machine.  What the engine does with an event is *)
(* the subject of Spec; here a handler of the simulator is reduced to the  *)
(* execution event it may emit.                                            *)
(***************************************************************************)
EngineUnchanged ==
    UNCHANGED <<positions, risk, order_books, latest_profiles, hourly_performance,
                symbol_stats, now, range_bars, volume_profiler, order_flow, strategy, last_gate>>

Channel == [tx |-> execution_q, hs |-> hist]

\* the simulator's `let _ = tx.try_send(..)`; a closed channel refuses as well
SimEmit(emits, event) ==
    IF ~emits THEN UNCHANGED <<execution_q, hist>>
    ELSE IF ExecutionRxClosed(pipe) THEN UNCHANGED <<execution_q, hist>>
    ELSE /\ execution_q' = try_send(Channel, event).tx
         /\ hist' = try_send(Channel, event).hs

InitPipe ==
    /\ positions = <<>>
    /\ risk = [balance |-> InitialBalance, daily_pnl |-> 0, daily_halted |-> FALSE,
               open_positions |-> [s \in Symbols |-> <<>>]]
    /\ order_books = [s \in Symbols |-> None]
    /\ latest_profiles = [s \in Symbols |-> None]
    /\ hourly_performance = [k \in Symbols \X Hours |-> <<>>]
    /\ symbol_stats = [s \in Symbols |-> ZeroStats]
    /\ execution_q = <<>>
    /\ now = 0
    /\ \E discord_enabled \in BOOLEAN : pipe = PipeStart(discord_enabled)
    /\ range_bars = BarsStart
    /\ volume_profiler = ProfilerStart
    /\ order_flow = OrderFlowStart
    /\ strategy = StrategyStart
    /\ last_gate = "none"
    /\ hist = [opened |-> 0, refused |-> FALSE, daily_limit_sent |-> FALSE,
               risk_closed |-> <<>>, stop_moved |-> <<>>]

Running(t) == pipe.task[t] = "running"

\* binance_ws.rs handle_agg_trade: the feed publishes the next trade
WsPublish ==
    /\ Running("ws")
    /\ pipe.published < MaxTrades
    /\ pipe' = [pipe EXCEPT !.published = @ + 1,
                            !.market_proc = broadcast_send(@, pipe.published + 1),
                            !.market_sim = broadcast_send(@, pipe.published + 1)]
    /\ EngineUnchanged /\ UNCHANGED <<execution_q, hist>>

\* every task: the shutdown branch of its select
TaskExit(t) ==
    /\ Running(t)
    /\ pipe.shutdown
    /\ t = "processing" => AtSelect(pipe.pending)
    /\ pipe' = [pipe EXCEPT !.task[t] = "exited"]
    /\ EngineUnchanged /\ UNCHANGED <<execution_q, hist>>

\* processing task: a trade arrives on its subscription
ProcRecv(events) ==
    /\ Running("processing")
    /\ AtSelect(pipe.pending)
    /\ pipe.market_proc # <<>>
    /\ LET trade == Head(pipe.market_proc) IN
       pipe' = [pipe EXCEPT !.market_proc = Tail(@),
                            !.proc_current = trade,
                            !.pending = pipe.pending \o Tagged(events, trade),
                            !.signalled = IF \E k \in DOMAIN events : events[k] = "Signal"
                                          THEN @ \cup {trade} ELSE @]
    /\ EngineUnchanged /\ UNCHANGED <<execution_q, hist>>

\* processing task: processing_tx.send(event).await returns
ProcSend ==
    /\ Running("processing")
    /\ pipe.pending # <<>>
    /\ IF ProcessingRxClosed(pipe)
       THEN pipe' = [pipe EXCEPT !.pending = Tail(@)]
       ELSE /\ Len(pipe.processing_q) < ProcCap
            /\ pipe' = [pipe EXCEPT !.pending = Tail(@),
                                    !.processing_q = Append(@, Head(pipe.pending))]
    /\ EngineUnchanged /\ UNCHANGED <<execution_q, hist>>

\* simulator: a processing event arrives; a signal may open a position
SimRecvProcessing(emits) ==
    /\ Running("sim")
    /\ pipe.processing_q # <<>>
    /\ LET r == mpsc_recv(pipe.processing_q) IN
       /\ emits => r.event.type = "Signal"
       /\ pipe' = [pipe EXCEPT !.processing_q = r.queue,
                               !.sim_last = r.event.trade,
                               !.executed = IF r.event.type = "Signal"
                                            THEN @ \cup {r.event.trade} ELSE @]
    /\ SimEmit(emits, "PositionOpened")
    /\ EngineUnchanged

\* simulator: a trade arrives on its own subscription; it may close a position
SimRecvMarket(emits) ==
    /\ Running("sim")
    /\ pipe.market_sim # <<>>
    /\ pipe' = [pipe EXCEPT !.market_sim = Tail(@),
                            !.sim_applied = Head(pipe.market_sim)]
    /\ SimEmit(emits, "PositionClosed")
    /\ EngineUnchanged

\* discord.rs run: the notification sink takes an event
DiscordTake ==
    /\ Running("discord")
    /\ execution_q # <<>>
    /\ execution_q' = Tail(execution_q)
    /\ EngineUnchanged /\ UNCHANGED <<pipe, hist>>

\* hourly reporter: the timer fires and the report is built
HourlyTick ==
    /\ Running("hourly")
    /\ pipe' = [pipe EXCEPT !.task["hourly"] = "sending"]
    /\ EngineUnchanged /\ UNCHANGED <<execution_q, hist>>

\* hourly reporter: hourly_execution_tx.send(report).await returns
HourlySend ==
    /\ pipe.task["hourly"] = "sending"
    /\ IF ExecutionRxClosed(pipe)
       THEN UNCHANGED execution_q
       ELSE /\ Len(execution_q) < ExecCap
            /\ execution_q' = Append(execution_q, "HourlyReport")
    /\ pipe' = [pipe EXCEPT !.task["hourly"] = "running"]
    /\ EngineUnchanged /\ UNCHANGED hist

\* reselection task: the 09:00 KST timer fires; it asks for a restart and returns
ReselectionFires ==
    /\ Running("reselection")
    /\ pipe' = [pipe EXCEPT !.shutdown = TRUE, !.task["reselection"] = "exited"]
    /\ EngineUnchanged /\ UNCHANGED <<execution_q, hist>>

\* main: Ctrl+C
CtrlC ==
    /\ ~pipe.shutdown
    /\ pipe' = [pipe EXCEPT !.shutdown = TRUE]
    /\ EngineUnchanged /\ UNCHANGED <<execution_q, hist>>

NextPipe ==
    \/ WsPublish
    \/ \E t \in Tasks : TaskExit(t)
    \/ \E events \in DerivedEvents : ProcRecv(events)
    \/ ProcSend
    \/ \E emits \in BOOLEAN : SimRecvProcessing(emits)
    \/ \E emits \in BOOLEAN : SimRecvMarket(emits)
    \/ DiscordTake
    \/ HourlyTick
    \/ HourlySend
    \/ ReselectionFires
    \/ CtrlC

\* The runtime polls every task that can make progress, and a select whose
\* shutdown branch is ready takes it sooner or later.
PipeFairness ==
    /\ \A t \in Tasks : SF_vars(TaskExit(t))
    /\ WF_vars(ProcSend)
    /\ WF_vars(HourlySend)
    /\ WF_vars(DiscordTake)

SpecPipe == InitPipe /\ [][NextPipe]_vars /\ PipeFairness

AllExited == \A t \in Tasks : pipe.task[t] \in {"exited", "not spawned"}

IsSortedByTrade(events) ==
    \A k \in 1 .. Len(events) - 1 : events[k].trade <= events[k + 1].trade

\* C8 as the spec states it: the simulator has not applied a later trade while
\* a signal generated from an earlier one is still to be executed.
SimulatorWaitsForSignals ==
    \A trade \in pipe.signalled :
        pipe.sim_applied > trade => trade \in pipe.executed \/ ProcessingRxClosed(pipe)

\* C8, amended: the processing task has handed over everything derived from a
\* trade before it takes the next one, and the simulator handles processing
\* events in the order they were sent; the simulator's own stream of trades is
\* not ordered against them.
ProcessingOrder ==
    /\ \A k \in DOMAIN pipe.pending : pipe.pending[k].trade = pipe.proc_current
    /\ IsSortedByTrade(pipe.processing_q)
    /\ \A k \in DOMAIN pipe.processing_q :
           /\ pipe.sim_last <= pipe.processing_q[k].trade
           /\ pipe.processing_q[k].trade <= pipe.proc_current
    /\ \A trade \in pipe.signalled :
           \/ trade \in pipe.executed
           \/ \E k \in DOMAIN pipe.processing_q :
                  pipe.processing_q[k] = [type |-> "Signal", trade |-> trade]
           \/ \E k \in DOMAIN pipe.pending :
                  pipe.pending[k] = [type |-> "Signal", trade |-> trade]
           \/ ProcessingRxClosed(pipe)

\* the processing task is held in a send for the first trade by a full
\* processing channel while the second trade waits on its subscription, and the
\* simulator has already applied the second trade
ProcessingOrderWitness ==
    /\ pipe.proc_current = 1
    /\ pipe.pending # <<>>
    /\ Len(pipe.processing_q) = ProcCap
    /\ pipe.market_proc = <<2>>
    /\ pipe.sim_applied = 2

\* C9: once the shutdown flag is set, every task exits.
ShutdownCompletes == pipe.shutdown ~> AllExited

\* with a notification sink running, shutdown does complete
ShutdownCompletesWithSink == (pipe.shutdown /\ pipe.task["discord"] # "not spawned") ~> AllExited

(***************************************************************************)
(* The range-bar builder as a state machine: any stream of trades, the     *)
(* symbols interleaved in any way.  A trade's timestamp is its place in    *)
(* the stream.                                                             *)
(***************************************************************************)
MaxBarTrades == 4        \* trades fed to the builder

BarPrices == {Px(20), Px(20) + 4, Px(21), Px(22)}
BarFills == {<<1, "Buy">>, <<2, "Sell">>}

InitBars ==
    /\ positions = <<>>
    /\ risk = [balance |-> InitialBalance, daily_pnl |-> 0, daily_halted |-> FALSE,
               open_positions |-> [s \in Symbols |-> <<>>]]
    /\ order_books = [s \in Symbols |-> None]
    /\ latest_profiles = [s \in Symbols |-> None]
    /\ hourly_performance = [k \in Symbols \X Hours |-> <<>>]
    /\ symbol_stats = [s \in Symbols |-> ZeroStats]
    /\ execution_q = <<>>
    /\ now = 0
    /\ pipe = PipeStart(TRUE)
    /\ range_bars = BarsStart
    /\ volume_profiler = ProfilerStart
    /\ order_flow = OrderFlowStart
    /\ strategy = StrategyStart
    /\ last_gate = "none"
    /\ hist = [opened |-> 0, refused |-> FALSE, daily_limit_sent |-> FALSE,
               risk_closed |-> <<>>, stop_moved |-> <<>>]

BarsOnly ==
    UNCHANGED <<positions, risk, order_books, latest_profiles, hourly_performance,
                symbol_stats, execution_q, now, pipe, volume_profiler, order_flow,
                strategy, last_gate, hist>>

\* main.rs (processing task): range_bar_builder.process_trade(trade)
BarTrade(symbol, price, fill) ==
    /\ Len(range_bars.trades) < MaxBarTrades
    /\ LET trade == [symbol |-> symbol, price |-> price, quantity |-> fill[1],
                     side |-> fill[2], timestamp |-> Len(range_bars.trades) + 1]
           r     == process_trade(range_bars.builders, trade)
       IN range_bars' = [builders |-> r.builders,
                         trades   |-> Append(range_bars.trades, trade),
                         emitted  |-> IF r.ret = None THEN range_bars.emitted
                                      ELSE Append(range_bars.emitted, Unwrap(r.ret))]
    /\ BarsOnly

NextBars ==
    \E symbol \in Symbols, price \in BarPrices, fill \in BarFills : BarTrade(symbol, price, fill)

SpecBars == InitBars /\ [][NextBars]_vars

\* C11: every emitted bar spans at least the range of its symbol, and its buy
\* and sell volumes add up to its volume.
EmittedBarsReachRange ==
    \A k \in DOMAIN range_bars.emitted :
        LET bar == range_bars.emitted[k] IN
        /\ bar.high - bar.low >= range_for(bar.symbol)
        /\ bar.buy_volume + bar.sell_volume = bar.volume

\* a bar that overshot its range and holds both buys and sells was emitted
EmittedBarsReachRangeWitness ==
    \E k \in DOMAIN range_bars.emitted :
        LET bar == range_bars.emitted[k] IN
        /\ bar.high - bar.low > range_for(bar.symbol)
        /\ bar.buy_volume > 0
        /\ bar.sell_volume > 0

\* the emitted bars of a symbol, in the order of emission
EmittedOf(symbol) ==
    LET ofSymbol(bar) == bar.symbol = symbol
    IN SelectSeq(range_bars.emitted, ofSymbol)

\* the bars of a symbol: those emitted and, last, the one being built
BarsWithBuilding(symbol) ==
    LET state == SymbolBarState(range_bars.builders, symbol)
    IN EmittedOf(symbol)
           \o (IF state.current = None THEN <<>> ELSE <<Unwrap(state.current)>>)

\* the quantity of the trade on the given sides, zero otherwise
SideQuantity(trade, sides) == IF trade.side \in sides THEN trade.quantity ELSE 0

\* the trades of a symbol, and those of them that completed a bar
TradesOf(symbol) ==
    {t \in DOMAIN range_bars.trades : range_bars.trades[t].symbol = symbol}

ClosingTradesOf(symbol) ==
    {t \in TradesOf(symbol) :
        \E k \in DOMAIN range_bars.emitted :
            /\ range_bars.emitted[k].symbol = symbol
            /\ range_bars.emitted[k].close_time = t}

RECURSIVE TradedQuantity(_, _)
TradedQuantity(ts, sides) ==
    IF ts = {} THEN 0
    ELSE LET t == CHOOSE x \in ts : TRUE
         IN SideQuantity(range_bars.trades[t], sides) + TradedQuantity(ts \ {t}, sides)

RECURSIVE FootprintVolume(_, _)
FootprintVolume(footprint, keys) ==
    IF keys = {} THEN 0
    ELSE LET k == CHOOSE x \in keys : TRUE
         IN footprint[k].bid_volume + footprint[k].ask_volume
                + FootprintVolume(footprint, keys \ {k})

\* the sum over the bars of volume, buy_volume, sell_volume and footprint volume
RECURSIVE BarTotals(_)
BarTotals(bars) ==
    IF bars = <<>> THEN [volume |-> 0, buy |-> 0, sell |-> 0, footprint |-> 0]
    ELSE LET b    == Head(bars)
             rest == BarTotals(Tail(bars))
         IN [volume    |-> b.volume + rest.volume,
             buy       |-> b.buy_volume + rest.buy,
             sell      |-> b.sell_volume + rest.sell,
             footprint |-> FootprintVolume(b.footprint, DOMAIN b.footprint)
                               + rest.footprint]

\* C40: the trade that completes a bar is counted in the completed bar and in
\* the bar it seeds, every other trade in one bar: for each symbol the volume,
\* the buy volume, the sell volume and the footprint volume summed over the
\* emitted bars and the building bar equal the traded quantity (of that side)
\* plus the quantity of the trades that completed a bar.
ClosingTradeCountedTwice ==
    \A s \in Symbols :
        LET totals == BarTotals(BarsWithBuilding(s))
            twice(sides) == TradedQuantity(TradesOf(s), sides)
                                + TradedQuantity(ClosingTradesOf(s), sides)
        IN /\ totals.volume = twice({"Buy", "Sell"})
           /\ totals.buy = twice({"Buy"})
           /\ totals.sell = twice({"Sell"})
           /\ totals.footprint = twice({"Buy", "Sell"})

\* a symbol has emitted two bars, one closed by a buy and one by a sell, and
\* its building bar holds the last closing trade alone
ClosingTradeCountedTwiceWitness ==
    \E s \in Symbols :
        LET state == SymbolBarState(range_bars.builders, s)
            last  == range_bars.trades[Len(range_bars.trades)]
        IN /\ Len(EmittedOf(s)) = 2
           /\ \E t, u \in ClosingTradesOf(s) :
                  range_bars.trades[t].side = "Buy" /\ range_bars.trades[u].side = "Sell"
           /\ last.symbol = s
           /\ Len(range_bars.trades) \in ClosingTradesOf(s)
           /\ Unwrap(state.current).volume = last.quantity

\* the trades of a symbol from one timestamp up to, not including, another
TradesBetween(symbol, from, to) ==
    {t \in DOMAIN range_bars.trades :
        range_bars.trades[t].symbol = symbol /\ from <= t /\ t < to}

\* how many bars of the symbol were emitted among the first k
EmittedBefore(symbol, k) ==
    Cardinality({j \in 1 .. k : range_bars.emitted[j].symbol = symbol})

StopMovesTowardBreakEven ==
    [][\A i \in DOMAIN positions :
           LET p == positions[i]
               q == positions'[i]
           IN p.status = "Open" =>
                  /\ p.side = "Buy" => q.stop_loss >= p.stop_loss
                  /\ p.side = "Sell" => q.stop_loss <= p.stop_loss
                  /\ q.stop_loss # p.stop_loss => q.stop_loss = break_even_stop_price(p)]_vars

\* an Open Buy and an Open Sell whose stops were moved off the signal's stop
StopMovesTowardBreakEvenWitness ==
    \E i \in DOMAIN positions, j \in DOMAIN positions :
        /\ positions[i].status = "Open" /\ positions[i].side = "Buy"
        /\ positions[i].break_even_moved
        /\ positions[i].stop_loss > positions[i].entry_price
        /\ positions[j].status = "Open" /\ positions[j].side = "Sell"
        /\ positions[j].break_even_moved
        /\ positions[j].stop_loss < positions[j].entry_price

\* C14: an Open position has a quantity above zero, the quantity of a position
\* never exceeds its original quantity, and no operation increases it.
QuantityOnlyDecreases ==
    [][/\ \A i \in DOMAIN positions' :
              /\ positions'[i].status = "Open" => positions'[i].quantity > 0
              /\ positions'[i].quantity <= positions'[i].original_quantity
       /\ \A i \in DOMAIN positions : positions'[i].quantity <= positions[i].quantity]_vars

\* an Open position was partially closed once, and what is left of it is no
\* more than a close quantity, which close_partial refuses
QuantityOnlyDecreasesWitness ==
    \E i \in DOMAIN positions :
        /\ positions[i].status = "Open"
        /\ positions[i].quantity < positions[i].original_quantity
        /\ \E q \in PMCloseQuantities : q >= positions[i].quantity
        /\ Len(hist.legs[i]) = 1

\* C15: the exit price, exit time and exit reason of a position are all unset
\* while it is Open and all set once it is Closed or Liquidated.
ExitFieldsIffFinalized ==
    \A i \in DOMAIN positions :
        LET p == positions[i] IN
        IF p.status = "Open"
        THEN p.exit_price = None /\ p.exit_time = None /\ p.exit_reason = None
        ELSE p.exit_price # None /\ p.exit_time # None /\ p.exit_reason # None

\* C16: once a close has left daily_pnl below the daily limit, trading is
\* halted and a DailyLimitReached event has been handed to the execution
\* channel.
DailyLimitAnnounced ==
    risk.daily_pnl * RateDen < -(InitialBalance * DailyLossLimitNum) =>
        risk.daily_halted /\ hist.daily_limit_sent

(***************************************************************************)
(* The entry path alone: profiles, depth updates and AdvancedOrderFlow     *)
(* signals of both sides, with no trade to close what was opened.          *)
(***************************************************************************)
EntrySignals ==
    { <<"btc", Shape("Buy",  "AdvancedOrderFlow", 17, 22)>>,
      <<"eth", Shape("Sell", "AdvancedOrderFlow", 21, 18)>> }

EntryProfiles ==
    { [symbol |-> "btc", vwap |-> Px(21), val |-> Px(19), vah |-> Px(22)],
      [symbol |-> "eth", vwap |-> Px(19), val |-> Px(18), vah |-> Px(21)] }

NextEntry ==
    \/ \E sig \in EntrySignals : OnSignal(sig[1], sig[2])
    \/ \E profile \in EntryProfiles : OnProfile(profile)
    \/ \E depth \in DepthInputs : OnDepth(depth)
    \/ DiscordRecv

SpecEntry == Init /\ [][NextEntry]_vars

\* the position execute_signal registers and announces for a signal that
\* passes every gate in the current state
Announced(symbol, shape) ==
    LET signal           == Signal(symbol, shape, now)
        quantity         == calculate_position_size(risk, signal)
        validated        == validate_order(signal.entry_price, quantity)
        validated_signal == [signal EXCEPT !.entry_price = validated.value[1]]
        opened           == open_position(positions, validated_signal,
                                          validated.value[2] \div QtyScale, now)
    IN WithTargets(Engine, opened.ret)

\* C17: when an AdvancedOrderFlow signal has just been accepted while a profile
\* of its symbol was known, the position the position manager holds carries
\* the TP1 and TP2 targets of that profile.
StoredPositionHasTargets ==
    (last_gate = "opened" /\ positions # <<>>) =>
        LET stored  == positions[Len(positions)]
            profile == latest_profiles[stored.symbol]
        IN (stored.setup = "AdvancedOrderFlow" /\ profile # None) =>
               /\ stored.tp1_price = Some(Unwrap(profile).vwap)
               /\ stored.tp2_price # None

\* C18: the position announced for an accepted AdvancedOrderFlow signal has
\* tp1_price at the profile's VWAP, and tp2_price at its VAH for a Buy and at
\* its VAL for a Sell.
AnnouncedTargetsBySide ==
    \A sig \in EntrySignals :
        LET profile == latest_profiles[sig[1]] IN
        (PassesAllGates(sig[1], sig[2]) /\ profile # None) =>
            LET announced == Announced(sig[1], sig[2]) IN
            /\ announced.tp1_price = Some(Unwrap(profile).vwap)
            /\ announced.tp2_price = Some(IF announced.side = "Buy"
                                          THEN Unwrap(profile).vah
                                          ELSE Unwrap(profile).val)

(***************************************************************************)
(* Scenario S6 (staged exits): the engine right after it accepted an       *)
(* AdvancedOrderFlow Buy of quantity 2 at 100 with stop 99.6, the profile  *)
(* of the symbol giving VWAP 101 and VAH 102; then trades at any of the    *)
(* scenario's prices, in any order.  hist.trades keeps the prices fed.     *)
(***************************************************************************)
MaxS6Trades == 3         \* trades fed after the acceptance

S6Stop == Px(100) - 40
S6Signal ==
    [symbol |-> "btc", side |-> "Buy", setup |-> "AdvancedOrderFlow",
     entry_price |-> Px(100), stop_loss |-> S6Stop, take_profit |-> Px(102),
     timestamp |-> 0]
S6Profile == [symbol |-> "btc", vwap |-> Px(101), val |-> Px(99), vah |-> Px(102)]
S6Prices == {S6Stop, Px(100), Px(100) + 50, Px(101), Px(102)}

\* the engine before the signal: nothing but the profile
S6Before ==
    [pm |-> <<>>,
     rm |-> [balance |-> InitialBalance, daily_pnl |-> 0, daily_halted |-> FALSE,
             open_positions |-> [s \in Symbols |-> <<>>]],
     books |-> [s \in Symbols |-> None],
     profiles |-> [s \in Symbols |-> IF s = "btc" THEN Some(S6Profile) ELSE None],
     hp |-> [k \in Symbols \X Hours |-> <<>>],
     ss |-> [s \in Symbols |-> ZeroStats],
     tx |-> <<>>,
     hs |-> [opened |-> 0, refused |-> FALSE, daily_limit_sent |-> FALSE,
             risk_closed |-> <<>>, stop_moved |-> <<>>, trades |-> <<>>]]

InitS6 ==
    LET E == OpenAndAnnounce(S6Before, S6Signal, 2, 0) IN
    /\ positions = E.pm
    /\ risk = E.rm
    /\ order_books = E.books
    /\ latest_profiles = E.profiles
    /\ hourly_performance = E.hp
    /\ symbol_stats = E.ss
    /\ execution_q = E.tx
    /\ hist = E.hs
    /\ now = 0
    /\ pipe = PipeStart(TRUE)
    /\ range_bars = BarsStart
    /\ volume_profiler = ProfilerStart
    /\ order_flow = OrderFlowStart
    /\ strategy = StrategyStart
    /\ last_gate = "opened"

S6Trade(price) ==
    /\ Len(hist.trades) < MaxS6Trades
    /\ SetEngine(on_trade([Engine EXCEPT !.hs.trades = Append(@, price)],
                          [symbol |-> "btc", price |-> price, timestamp |-> now]))
    /\ last_gate' = "none"
    /\ UNCHANGED <<now, pipe, range_bars, volume_profiler, order_flow, strategy>>

NextS6 ==
    \/ \E price \in S6Prices : S6Trade(price)
    \/ DiscordRecv

SpecS6 == InitS6 /\ [][NextS6]_vars

\* C19: after the trade at 101 one unit is closed at 101, TP1 is filled and
\* the stop sits at the break-even lock; after the following trade at 99.6 the
\* remaining unit is closed at 99.6 as a StopLoss, and the pnl of the position
\* is that of the two units net of the fees of all four legs.
StagedExitScenario ==
    LET p == positions[1] IN
    /\ hist.trades = <<Px(101)>> =>
           /\ p.status = "Open"
           /\ p.quantity = 1
           /\ p.tp1_filled
           /\ p.stop_loss = break_even_stop_price(p)
    /\ hist.trades = <<Px(101), S6Stop>> =>
           /\ p.status = "Closed"
           /\ p.quantity = 1
           /\ p.exit_price = Some(S6Stop)
           /\ p.exit_reason = Some("StopLoss")
           /\ p.pnl = net_pnl("Buy", Px(100), Px(101), 1, FeeNum)
                          + net_pnl("Buy", Px(100), S6Stop, 1, FeeNum)

(***************************************************************************)
(* Scenario S5 (signal gated by spread): an engine configured with         *)
(* max_spread_bps = 4 receives depth updates around 100.00 and Advanced    *)
(* Buy signals at 100.00.                                                  *)
(***************************************************************************)
S5MaxSpreadBps == 4
S5Quantities == {0, 1, 3}

S5Depths ==
    { [symbol |-> "btc",
       bids |-> <<[price |-> S5BestBid - 2, quantity |-> q[1]],
                  [price |-> S5BestBid,     quantity |-> q[2]]>>,
       asks |-> <<[price |-> S5BestAsk,     quantity |-> q[3]],
                  [price |-> S5BestAsk + 2, quantity |-> q[4]]>>] :
      q \in S5Quantities \X S5Quantities \X S5Quantities \X S5Quantities }

S5Signals ==
    { [symbol |-> "btc", side |-> "Buy", setup |-> "AdvancedOrderFlow",
       entry_price |-> Px(100), stop_loss |-> stop, take_profit |-> Px(102),
       timestamp |-> 0] : stop \in {Px(100) - 40, Px(99)} }

S5Depth(depth) ==
    /\ SetEngine(on_depth(Engine, depth))
    /\ last_gate' = "none"
    /\ UNCHANGED <<now, pipe, range_bars, volume_profiler, order_flow, strategy>>

S5Signal(signal) ==
    LET r == execute_signal_with(Engine, signal, now, S5MaxSpreadBps)
    IN /\ r.gate = "opened" => Len(positions) < MaxPositions
       /\ SetEngine(r.E)
       /\ last_gate' = r.gate
       /\ UNCHANGED <<now, pipe, range_bars, volume_profiler, order_flow, strategy>>

NextS5 ==
    \/ \E depth \in S5Depths : S5Depth(depth)
    \/ \E signal \in S5Signals : S5Signal(signal)
    \/ DiscordRecv

SpecS5 == Init /\ [][NextS5]_vars

\* spread / mid * 10000 = bps, without rounding
spread_bps_is(book, bps) ==
    Unwrap(spread(book)) * 2 * 10000 = bps * Unwrap(mid_price_x2(book))

\* a signal has just been evaluated against the book of the scenario
S5Evaluated ==
    /\ last_gate # "none"
    /\ order_books["btc"] # None
    /\ best_bid(Unwrap(order_books["btc"])) = Some(S5BestBid)
    /\ best_ask(Unwrap(order_books["btc"])) = Some(S5BestAsk)

\* C20 (as amended): with max_spread_bps = 4, best_bid 99.99 and best_ask
\* 100.01 the gate evaluates the spread as 2 bps, which passes; it rejects the
\* Advanced Buy exactly when the bid/ask depth ratio is below
\* min_depth_imbalance_ratio.
SpreadGateScenario ==
    S5Evaluated =>
        /\ spread_bps_is(Unwrap(order_books["btc"]), 2)
        /\ last_gate = "quality" <=> ~DepthRatioOk(Unwrap(order_books["btc"]))

SpreadGateScenarioWitness ==
    /\ S5Evaluated
    /\ last_gate = "opened"
    /\ Len(positions) = 1

\* C20 (as stated): the spread is evaluated as 20 bps and the signal is
\* rejected by the gate without opening a position.
SpreadGateRejects ==
    S5Evaluated =>
        /\ spread_bps_is(Unwrap(order_books["btc"]), 20)
        /\ last_gate = "quality"
        /\ positions = <<>>

\* signals of either side for either symbol, as they could arrive now
GateSignals ==
    { [symbol |-> s, side |-> side, setup |-> "AdvancedOrderFlow",
       entry_price |-> Px(100),
       stop_loss |-> IF side = "Buy" THEN Px(99) ELSE Px(101),
       take_profit |-> IF side = "Buy" THEN Px(102) ELSE Px(98),
       timestamp |-> now] : s \in Symbols, side \in {"Buy", "Sell"} }

\* the signal got past the execution-quality gate of the S5 engine
PassesQualityGate(signal) ==
    execute_signal_with(Engine, signal, now, S5MaxSpreadBps).gate # "quality"

\* the book has a best bid and a best ask
TwoSided(book) == Keys(book.bids) # {} /\ Keys(book.asks) # {}

\* (best_ask - best_bid) / ((best_bid + best_ask) / 2) * 10000 <= bps
SpreadWithin(book, bps) ==
    LET bid == MaxOf(Keys(book.bids))
        ask == MinOf(Keys(book.asks))
    IN (ask - bid) * 2 * 10000 <= bps * (bid + ask)

\* the resting volume on the signal's side over that on the other side is at
\* least min_depth_imbalance_ratio
ImbalanceInFavour(book, side) ==
    LET bid_total == total_bid_volume(book)
        ask_total == total_ask_volume(book)
    IN IF side = "Buy"
       THEN ask_total > 0 /\ bid_total * RateDen >= MinDepthImbalanceNum * ask_total
       ELSE bid_total > 0 /\ ask_total * RateDen >= MinDepthImbalanceNum * bid_total

ExitStops == {Px(17), Px(20), Px(23)}

NextExits ==
    \/ \E signal \in PMSignals, quantity \in PMOpenQuantities : PMOpen(signal, quantity)
    \/ \E id \in PMIds, stop \in ExitStops : PMMoveStop(id, stop)
    \/ \E symbol \in Symbols, price \in PMPrices : PMCheckExits(symbol, price)

SpecExits == InitPM /\ [][NextExits]_vars

HitsStop(p, price) ==
    IF p.side = "Buy" THEN price <= p.stop_loss ELSE price >= p.stop_loss

HitsTarget(p, price) ==
    IF p.side = "Buy" THEN price >= p.take_profit ELSE price <= p.take_profit

\* C33: check_exits(symbol, price) closes an Open position of the symbol at
\* its stop_loss when the price is at or beyond the stop (Buy: price <=
\* stop_loss, Sell: price >= stop_loss), whether or not the target is reached
\* too, and otherwise at its take_profit when the price is at or beyond the
\* target; it leaves every other position, those of other symbols included,
\* as it was.  A position closed by the check has its stop_loss or its
\* take_profit as exit price.
StandardExits ==
    /\ \A symbol \in Symbols, price \in PMPrices :
           LET r == check_exits(positions, symbol, price, FeeNum)
           IN \A i \in DOMAIN positions :
                  LET p == positions[i]
                      q == r.positions[i]
                  IN IF p.status # "Open" \/ p.symbol # symbol THEN q = p
                     ELSE IF HitsStop(p, price)
                     THEN q.status = "Closed" /\ q.exit_price = Some(p.stop_loss)
                     ELSE IF HitsTarget(p, price)
                     THEN q.status = "Closed" /\ q.exit_price = Some(p.take_profit)
                     ELSE q = p
    /\ \A i \in DOMAIN positions :
           positions[i].status = "Closed" =>
               positions[i].exit_price \in {Some(positions[i].stop_loss),
                                            Some(positions[i].take_profit)}

\* a long whose stop had been moved past its target was closed at the stop
\* by a trade that reached both, while the short of the other symbol stays open
StandardExitsWitness ==
    \E i, j \in DOMAIN positions :
        /\ positions[i].side = "Buy"
        /\ positions[i].status = "Closed"
        /\ positions[i].stop_loss > positions[i].take_profit
        /\ positions[i].exit_price = Some(positions[i].stop_loss)
        /\ hist.returned[i] = 1
        /\ positions[j].symbol # positions[i].symbol
        /\ positions[j].status = "Open"

(***************************************************************************)
(* The soft stop: Advanced and AAA positions of either side are opened at  *)
(* 20.00 with stops and targets three and two units away, the clock moves  *)
(* past soft_stop_seconds, and trades arrive at, short of and beyond the   *)
(* drawdown levels 19.00 (long) and 21.00 (short).                         *)
(***************************************************************************)
SoftSignals ==
    { <<"btc", Shape("Buy",  "AdvancedOrderFlow", 17, 22)>>,
      <<"btc", Shape("Buy",  "AAA", 17, 22)>>,
      <<"eth", Shape("Sell", "AdvancedOrderFlow", 23, 18)>>,
      <<"eth", Shape("Sell", "AAA", 23, 18)>> }

SoftPrices == {Px(19), Px(19) + 50, Px(20) + 50, Px(21)}

NextSoft ==
    \/ \E sig \in SoftSignals : OnSignal(sig[1], sig[2])
    \/ \E depth \in DepthInputs : OnDepth(depth)
    \/ \E symbol \in Symbols, price \in SoftPrices : OnTrade(symbol, price)
    \/ DiscordRecv
    \/ Tick

SpecSoft == Init /\ [][NextSoft]_vars

\* the price is at or beyond entry * (1 -/+ soft_stop_drawdown_pct / 100) on
\* the adverse side
InDrawdown(p, price) ==
    IF p.side = "Buy"
    THEN price * RateDen <= p.entry_price * (RateDen - SoftStopDrawdownPct)
    ELSE price * RateDen >= p.entry_price * (RateDen + SoftStopDrawdownPct)

\* C34: at whatever time a trade arrives, check_multi_stage_exits closes a
\* position whose TP1 is not filled (the soft-stop branch, which hands
\* ExitReason::SoftStop to close_position) only if the position is of the
\* trade's symbol, its setup is AdvancedOrderFlow, at least soft_stop_seconds
\* have passed since its entry and the trade price is at or beyond
\* entry * (1 -/+ soft_stop_drawdown_pct / 100) on the adverse side; the exit
\* price is then the trade price.  However much time has passed, a price
\* short of that level closes nothing.
SoftStopOnlyInDrawdown ==
    \A symbol \in Symbols, price \in SoftPrices,
       t \in now .. (MaxTime + SoftStopSeconds) :
        LET R == check_multi_stage_exits(Engine, symbol, price, t)
        IN \A i \in DOMAIN positions :
               LET p == positions[i]
                   q == R.pm[i]
               IN (p.status = "Open" /\ ~p.tp1_filled /\ q.status # "Open") =>
                      /\ p.symbol = symbol
                      /\ p.setup = "AdvancedOrderFlow"
                      /\ t - p.entry_time >= SoftStopSeconds
                      /\ InDrawdown(p, price)
                      /\ q.status = "Closed"
                      /\ q.exit_price = Some(price)

\* an Advanced long held past soft_stop_seconds was closed at the trade price
\* 19.00, which is neither its stop nor its target, while an AAA short
\* entered at the same time is still open
SoftStopOnlyInDrawdownWitness ==
    \E i, j \in DOMAIN positions :
        /\ positions[i].setup = "AdvancedOrderFlow"
        /\ positions[i].side = "Buy"
        /\ positions[i].status = "Closed"
        /\ positions[i].entry_time = 0
        /\ positions[i].exit_price = Some(Px(19))
        /\ positions[i].stop_loss < Px(19)
        /\ positions[j].setup = "AAA"
        /\ positions[j].entry_time = 0
        /\ positions[j].status = "Open"
        /\ now >= SoftStopSeconds

(***************************************************************************)
(* Scenario S3 (liquidation): a PositionManager built with leverage 100,   *)
(* maintenance_margin_rate 0.004 and taker_fee 0.0004, the rates as        *)
(* numerators over 10 000, so that pnl is in millionths.  Positions are    *)
(* opened at 100.00 and trades arrive around the liquidation prices.       *)
(* hist.marks keeps the mark prices fed.                                   *)
(***************************************************************************)
S3RateDen == 10000
S3Leverage == 100
S3MaintenanceMarginNum == 40
S3FeeNum == 4
MaxS3Trades == 2         \* trades fed to check_liquidations

S3Quantities == {1, 2}
S3Marks == {Px(100) - 53, Px(100) - 52, Px(100) - 51, Px(100) + 52}

S3Signal(side) ==
    [symbol |-> "btc", side |-> side, setup |-> "AAA", entry_price |-> Px(100),
     stop_loss |-> IF side = "Buy" THEN Px(99) ELSE Px(101),
     take_profit |-> IF side = "Buy" THEN Px(102) ELSE Px(98), timestamp |-> 0]

InitS3 ==
    /\ positions = <<>>
    /\ risk = [balance |-> InitialBalance, daily_pnl |-> 0, daily_halted |-> FALSE,
               open_positions |-> [s \in Symbols |-> <<>>]]
    /\ order_books = [s \in Symbols |-> None]
    /\ latest_profiles = [s \in Symbols |-> None]
    /\ hourly_performance = [k \in Symbols \X Hours |-> <<>>]
    /\ symbol_stats = [s \in Symbols |-> ZeroStats]
    /\ execution_q = <<>>
    /\ now = 0
    /\ pipe = PipeStart(TRUE)
    /\ range_bars = BarsStart
    /\ volume_profiler = ProfilerStart
    /\ order_flow = OrderFlowStart
    /\ strategy = StrategyStart
    /\ last_gate = "none"
    /\ hist = [marks |-> <<>>]

S3Open(side, quantity) ==
    /\ Len(positions) < MaxPMPositions
    /\ positions' = open_position_with(positions, S3Signal(side), quantity, now,
                                       S3Leverage, S3MaintenanceMarginNum, S3FeeNum,
                                       S3RateDen).positions
    /\ hist' = hist
    /\ UnchangedButPositions

S3Trade(mark_price) ==
    /\ Len(hist.marks) < MaxS3Trades
    /\ positions' = check_liquidations_at(positions, "btc", mark_price, S3FeeNum,
                                          S3RateDen).positions
    /\ hist' = [hist EXCEPT !.marks = Append(@, mark_price)]
    /\ UnchangedButPositions

NextS3 ==
    \/ \E side \in Sides, quantity \in S3Quantities : S3Open(side, quantity)
    \/ \E mark_price \in S3Marks : S3Trade(mark_price)

SpecS3 == InitS3 /\ [][NextS3]_vars

S3Position(p) == p.side = "Buy" /\ p.entry_price = Px(100) /\ p.original_quantity = 1

\* C21: a Buy of quantity 1 entered at 100.00 has liquidation price 99.48; a
\* trade at 99.48 liquidates it while Open (one at 99.49 does not), and once
\* Liquidated it is closed at 99.48 with pnl -0.599792.
LiquidationScenario ==
    \A i \in DOMAIN positions :
        LET p == positions[i]
            at_liq == check_liquidations_at(positions, "btc", Px(100) - 52, S3FeeNum,
                                            S3RateDen).positions[i]
            above  == check_liquidations_at(positions, "btc", Px(100) - 51, S3FeeNum,
                                            S3RateDen).positions[i]
        IN S3Position(p) =>
               /\ p.liquidation_price = Px(100) - 52
               /\ p.status = "Open" => at_liq.status = "Liquidated" /\ above = p
               /\ p.status # "Open" =>
                      /\ p.status = "Liquidated"
                      /\ p.exit_price = Some(Px(100) - 52)
                      /\ p.pnl = -599792

\* the position of the scenario, liquidated by a trade at exactly 99.48
LiquidationScenarioWitness ==
    /\ hist.marks = <<Px(100) - 51, Px(100) - 52>>
    /\ \E i \in DOMAIN positions :
           S3Position(positions[i]) /\ positions[i].status = "Liquidated"

(***************************************************************************)
(* Break-even arming.                                                      *)
(***************************************************************************)
FavorableMove(p, price) ==
    IF p.side = "Buy" THEN price - p.entry_price ELSE p.entry_price - price

\* C22: should_move_to_break_even is false once the stop was moved, and
\* otherwise true exactly when the favourable displacement reaches
\* break_even_ticks, the position has been open for break_even_min_hold_secs
\* and the realized risk multiple reaches break_even_trigger_rr.
BreakEvenNeedsHoldAndRisk ==
    \A i \in DOMAIN positions, price \in TradePrices :
        LET p == positions[i] IN
        p.status = "Open" =>
            (should_move_to_break_even(p, price)
                <=> /\ ~p.break_even_moved
                    /\ FavorableMove(p, price) >= Px(BreakEvenTicks)
                    /\ now - p.entry_time >= BreakEvenMinHoldSecs
                    /\ FavorableMove(p, price) * RateDen
                           >= BreakEvenTriggerRRNum * Abs(p.entry_price - p.stop_loss))


(***************************************************************************)
(* Scenario S4 (break-even arm): an engine whose RiskManager has           *)
(* break_even_ticks 5 and a profit lock of 1 holds positions entered at    *)
(* 50000 with stops 10 away, and trades arrive around the entry.           *)
(* hist.retriggered keeps the positions that saw a trade reaching the      *)
(* break-even distance after their stop had been moved.                    *)
(***************************************************************************)
S4BreakEvenTicks == 5
S4ProfitLockTicks == 1

S4Signals ==
    { [symbol |-> "btc", side |-> "Buy", setup |-> "AAA", entry_price |-> Px(50000),
       stop_loss |-> Px(49990), take_profit |-> Px(50030), timestamp |-> 0],
      [symbol |-> "eth", side |-> "Sell", setup |-> "AAA", entry_price |-> Px(50000),
       stop_loss |-> Px(50010), take_profit |-> Px(49970), timestamp |-> 0] }

S4Prices == {Px(49990), Px(49995), Px(50004), Px(50005), Px(50010), Px(50020)}

InitS4 ==
    /\ positions = <<>>
    /\ risk = [balance |-> InitialBalance, daily_pnl |-> 0, daily_halted |-> FALSE,
               open_positions |-> [s \in Symbols |-> <<>>]]
    /\ order_books = [s \in Symbols |-> None]
    /\ latest_profiles = [s \in Symbols |-> None]
    /\ hourly_performance = [k \in Symbols \X Hours |-> <<>>]
    /\ symbol_stats = [s \in Symbols |-> ZeroStats]
    /\ execution_q = <<>>
    /\ now = 0
    /\ pipe = PipeStart(TRUE)
    /\ range_bars = BarsStart
    /\ volume_profiler = ProfilerStart
    /\ order_flow = OrderFlowStart
    /\ strategy = StrategyStart
    /\ last_gate = "none"
    /\ hist = [opened |-> 0, refused |-> FALSE, daily_limit_sent |-> FALSE,
               risk_closed |-> <<>>, stop_moved |-> <<>>, retriggered |-> {}]

\* the tail of execute_signal for a signal that passed the gates with quantity 1
S4Open(signal) ==
    /\ can_trade(risk, signal)
    /\ Len(positions) < MaxPositions
    /\ SetEngine(OpenAndAnnounce(Engine, signal, 1, now))
    /\ last_gate' = "opened"
    /\ UNCHANGED <<now, pipe, range_bars, volume_profiler, order_flow, strategy>>

S4Trade(symbol, price) ==
    LET again == {i \in DOMAIN positions :
                      /\ positions[i].status = "Open"
                      /\ positions[i].symbol = symbol
                      /\ positions[i].break_even_moved
                      /\ should_move_again(positions[i], price, S4BreakEvenTicks)}
    IN /\ SetEngine(on_trade_with([Engine EXCEPT !.hs.retriggered = @ \cup again],
                                  [symbol |-> symbol, price |-> price, timestamp |-> now],
                                  S4BreakEvenTicks, S4ProfitLockTicks))
       /\ last_gate' = "none"
       /\ UNCHANGED <<now, pipe, range_bars, volume_profiler, order_flow, strategy>>

NextS4 ==
    \/ \E signal \in S4Signals : S4Open(signal)
    \/ \E symbol \in Symbols, price \in S4Prices : S4Trade(symbol, price)
    \/ DiscordRecv
    \/ Tick

SpecS4 == InitS4 /\ [][NextS4]_vars

StopMovedCount(hs, i) == IF i \in DOMAIN hs.stop_moved THEN hs.stop_moved[i] ELSE 0

\* C23: a trade at 50010 arms the Buy entered at 50000 (stop 50001,
\* break_even_moved set, one StopMoved event); once a position is armed, no
\* step changes its stop or sends another StopMoved event for it.
BreakEvenOnce ==
    /\ [](\A i \in DOMAIN positions :
              LET p     == positions[i]
                  after == on_trade_with(Engine, [symbol |-> p.symbol, price |-> Px(50010),
                                                  timestamp |-> now],
                                         S4BreakEvenTicks, S4ProfitLockTicks)
              IN (p.status = "Open" /\ p.side = "Buy" /\ ~p.break_even_moved) =>
                     /\ after.pm[i].status = "Open"
                     /\ after.pm[i].stop_loss = Px(50001)
                     /\ after.pm[i].break_even_moved
                     /\ StopMovedCount(after.hs, i) = 1)
    /\ [][\A i \in DOMAIN positions :
              positions[i].break_even_moved =>
                  /\ positions'[i].stop_loss = positions[i].stop_loss
                  /\ positions'[i].break_even_moved
                  /\ StopMovedCount(hist', i) = StopMovedCount(hist, i)]_vars

\* an armed Buy, still Open, that has seen a second favourable trade
BreakEvenOnceWitness ==
    \E i \in DOMAIN positions :
        /\ positions[i].status = "Open" /\ positions[i].side = "Buy"
        /\ positions[i].break_even_moved
        /\ positions[i].stop_loss = Px(50001)
        /\ i \in hist.retriggered
        /\ StopMovedCount(hist, i) = 1


(***************************************************************************)
(* The VolumeProfiler driven alone: any tick size and value area, trades   *)
(* of both symbols at prices on and between the ticks, with and without    *)
(* a session reset between them.                                           *)
(***************************************************************************)
MaxVPTrades == 4         \* trades fed to the profiler

VPTickSizes == {50, 100, 150}
VPValueAreaPcts == {50, 100}
VPPrices == {Px(100), Px(100) + 50, Px(101), Px(102)}
VPQuantities == {1, 2}
VPTimeSteps == {0, SessionResetHours + 1}

\* the trades fed: (symbol, price, quantity, hours since the previous trade)
VPTradeInputs ==
    ({"btc"} \X VPPrices \X VPQuantities \X VPTimeSteps)
        \cup {<<"eth", Px(100), 1, 0>>}

ProfilerOnly ==
    UNCHANGED <<positions, risk, order_books, latest_profiles, hourly_performance,
                symbol_stats, execution_q, now, pipe, range_bars, order_flow, strategy,
                last_gate, hist>>

\* the engine and the tasks before any event
EngineAtStart ==
    /\ positions = <<>>
    /\ risk = [balance |-> InitialBalance, daily_pnl |-> 0, daily_halted |-> FALSE,
               open_positions |-> [s \in Symbols |-> <<>>]]
    /\ order_books = [s \in Symbols |-> None]
    /\ latest_profiles = [s \in Symbols |-> None]
    /\ hourly_performance = [k \in Symbols \X Hours |-> <<>>]
    /\ symbol_stats = [s \in Symbols |-> ZeroStats]
    /\ execution_q = <<>>
    /\ now = 0
    /\ pipe = PipeStart(TRUE)
    /\ last_gate = "none"
    /\ hist = [opened |-> 0, refused |-> FALSE, daily_limit_sent |-> FALSE,
               risk_closed |-> <<>>, stop_moved |-> <<>>]

InitVP ==
    /\ EngineAtStart
    /\ range_bars = BarsStart
    /\ order_flow = OrderFlowStart
    /\ strategy = StrategyStart
    /\ \E tick_size \in VPTickSizes, value_area_pct \in VPValueAreaPcts :
           volume_profiler = Profiler(tick_size, value_area_pct)

\* the ticks of each symbol's histogram in the order they were inserted in:
\* a session reset drops the ticks it cleared
InsertionOrder(inserted, vp, trade) ==
    LET levels == Unwrap(vp.profiles[trade.symbol]).levels
        kept   == SelectSeq(inserted[trade.symbol], LAMBDA t : t \in DOMAIN levels)
        tick   == price_to_tick(trade.price, tick_size_for(vp, trade.symbol))
    IN [inserted EXCEPT ![trade.symbol] =
            IF \E i \in DOMAIN kept : kept[i] = tick THEN kept ELSE Append(kept, tick)]

\* main.rs (processing task): volume_profiler.process_trade(trade)
VPTrade(symbol, price, quantity, step) ==
    /\ volume_profiler.n < MaxVPTrades
    /\ LET trade == [symbol |-> symbol, price |-> price, quantity |-> quantity,
                     timestamp |-> volume_profiler.clock + step]
           r     == profile_trade(volume_profiler.vp, trade)
       IN volume_profiler' = [vp |-> r.vp, n |-> volume_profiler.n + 1,
                              clock |-> trade.timestamp, ret |-> r.ret,
                              inserted |-> InsertionOrder(volume_profiler.inserted,
                                                          r.vp, trade)]
    /\ ProfilerOnly

NextVP ==
    \E input \in VPTradeInputs : VPTrade(input[1], input[2], input[3], input[4])

SpecVP == InitVP /\ [][NextVP]_vars

\* C24: every snapshot the profiler returns has val <= poc <= vah.
ValueAreaAroundPoc ==
    volume_profiler.ret # None =>
        LET snapshot == Unwrap(volume_profiler.ret)
        IN snapshot.val <= snapshot.poc /\ snapshot.poc <= snapshot.vah

\* a snapshot whose value area extends to both sides of the POC
ValueAreaAroundPocWitness ==
    /\ volume_profiler.ret # None
    /\ Unwrap(volume_profiler.ret).val < Unwrap(volume_profiler.ret).poc
    /\ Unwrap(volume_profiler.ret).poc < Unwrap(volume_profiler.ret).vah

\* C25: every snapshot the profiler returns has session_low <= poc <= session_high.
PocWithinSession ==
    volume_profiler.ret # None =>
        LET snapshot == Unwrap(volume_profiler.ret)
        IN snapshot.session_low <= snapshot.poc /\ snapshot.poc <= snapshot.session_high

\* the ticks of a histogram that hold its largest volume
MaxVolumeTicks(levels) ==
    {t \in DOMAIN levels : \A u \in DOMAIN levels : levels[u] <= levels[t]}

\* the first tick of the insertion order that is among the given ticks
EarliestInserted(order, ticks) ==
    order[MinOf({i \in DOMAIN order : order[i] \in ticks})]

\* C36: the POC of every snapshot is the price of a tick with the largest
\* accumulated volume, and of the ticks that tie for it the one that was
\* inserted into the histogram first.
PocIsEarliestMaximum ==
    volume_profiler.ret # None =>
        LET snapshot == Unwrap(volume_profiler.ret)
            vp       == volume_profiler.vp
            levels   == Unwrap(vp.profiles[snapshot.symbol]).levels
            earliest == EarliestInserted(volume_profiler.inserted[snapshot.symbol],
                                         MaxVolumeTicks(levels))
        IN snapshot.poc = tick_to_price(earliest, tick_size_for(vp, snapshot.symbol))

(***************************************************************************)
(* compute_snapshot on any histogram of the ticks 99 .. 103 (tick size 1)  *)
(* with at least three populated ticks: the profile of btc holds the       *)
(* histogram, and the snapshot is taken once.  volume_profiler.area keeps  *)
(* the expansion that produced the snapshot.                               *)
(***************************************************************************)
VATicks == 99 .. 103
VAVolumes == {0, 1, 2, 3, 5}
VAValueAreaPcts == {50, 70, 100}

\* the BTreeMap holding the populated ticks of a histogram
Populated(volumes) ==
    [t \in {u \in DOMAIN volumes : volumes[u] > 0} |-> volumes[t]]

RECURSIVE SumLevels(_, _)
SumLevels(levels, ticks) ==
    IF ticks = {} THEN 0
    ELSE LET t == CHOOSE u \in ticks : TRUE
         IN levels[t] + SumLevels(levels, ticks \ {t})

\* the profile process_trade has built from trades with these volumes per tick
ProfileOf(levels) ==
    [levels |-> levels, session_start |-> 0,
     total_volume |-> SumLevels(levels, DOMAIN levels),
     session_high |-> tick_to_price(MaxOf(DOMAIN levels), DefaultTickSize),
     session_low |-> tick_to_price(MinOf(DOMAIN levels), DefaultTickSize),
     recent_trades |-> <<>>]

InitVA ==
    /\ EngineAtStart
    /\ range_bars = BarsStart
    /\ order_flow = OrderFlowStart
    /\ strategy = StrategyStart
    /\ \E volumes \in [VATicks -> VAVolumes], value_area_pct \in VAValueAreaPcts :
           /\ Cardinality(DOMAIN Populated(volumes)) >= 3
           /\ volume_profiler =
                  [vp |-> [VolumeProfiler_new(DefaultTickSize, value_area_pct)
                               EXCEPT !.profiles["btc"] = Some(ProfileOf(Populated(volumes)))],
                   n |-> 0, clock |-> 0, ret |-> None, area |-> None]

VASnapshot ==
    /\ volume_profiler.ret = None
    /\ LET profile == Unwrap(volume_profiler.vp.profiles["btc"])
       IN volume_profiler' =
              [volume_profiler EXCEPT
                  !.ret = Some(compute_snapshot(volume_profiler.vp, "btc", 0)),
                  !.area = Some(ValueArea(profile.levels, profile.total_volume,
                                          volume_profiler.vp.value_area_pct,
                                          MaxVolumeTick(profile.levels)))]
    /\ ProfilerOnly

NextVA == VASnapshot

SpecVA == InitVA /\ [][NextVA]_vars

\* the ticks of the first k steps of an expansion, with the POC
TicksAfter(poc_tick, steps, k) == {poc_tick} \cup {steps[j].tick : j \in 1 .. k}

S2Levels == (99 :> 1) @@ (100 :> 3) @@ (101 :> 5) @@ (102 :> 2) @@ (103 :> 1)

\* C26: the expansion starts at the POC; each step adds the nearest populated
\* tick above or below the area built so far, the one with the larger volume
\* and the upper one when they are equal; no step is taken once the area holds
\* total_volume * value_area_pct, and the expansion ends only then or when no
\* populated tick is left; for the histogram of S2 with 0.70 it gives POC 101,
\* VAH 102, VAL 100.
ValueAreaExpansion ==
    volume_profiler.ret # None =>
        LET profile  == Unwrap(volume_profiler.vp.profiles["btc"])
            levels   == profile.levels
            snapshot == Unwrap(volume_profiler.ret)
            area     == Unwrap(volume_profiler.area)
            steps    == area.steps
            poc_tick == price_to_tick(snapshot.poc, DefaultTickSize)
            target   == profile.total_volume * volume_profiler.vp.value_area_pct
            all      == TicksAfter(poc_tick, steps, Len(steps))
        IN /\ snapshot.vah = tick_to_price(MaxOf(all), DefaultTickSize)
           /\ snapshot.val = tick_to_price(MinOf(all), DefaultTickSize)
           /\ all = {t \in DOMAIN levels : MinOf(all) <= t /\ t <= MaxOf(all)}
           /\ \/ SumLevels(levels, all) * RateDen >= target
              \/ all = DOMAIN levels
           /\ \A k \in 1 .. Len(steps) :
                  LET before == TicksAfter(poc_tick, steps, k - 1)
                      up     == {t \in DOMAIN levels : t > MaxOf(before)}
                      down   == {t \in DOMAIN levels : t < MinOf(before)}
                      tick   == steps[k].tick
                  IN /\ SumLevels(levels, before) * RateDen < target
                     /\ \/ /\ up # {} /\ tick = MinOf(up)
                           /\ down # {} => levels[tick] >= levels[MaxOf(down)]
                        \/ /\ down # {} /\ tick = MaxOf(down)
                           /\ up # {} => levels[tick] > levels[MinOf(up)]
           /\ (levels = S2Levels /\ volume_profiler.vp.value_area_pct = 70) =>
                  /\ snapshot.poc = Px(101)
                  /\ snapshot.vah = Px(102)
                  /\ snapshot.val = Px(100)

\* the snapshot of scenario S2
ValueAreaExpansionWitness ==
    /\ volume_profiler.ret # None
    /\ Unwrap(volume_profiler.vp.profiles["btc"]).levels = S2Levels
    /\ volume_profiler.vp.value_area_pct = 70
    /\ Len(Unwrap(volume_profiler.area).steps) = 2


(***************************************************************************)
(* The order-flow tracker alone: completed bars of two trades each, one at *)
(* the open and one a range away, closing 0 or 6 minutes after the         *)
(* previous bar.                                                           *)
(***************************************************************************)
MaxOFBars == 4           \* bars analysed

OFFills == {<<1, "Buy">>, <<2, "Sell">>}
OFTimeSteps == {0, CvdHistoryMinutes + 1}
OFBarInputs ==
    ({"btc"} \X OFFills \X OFFills \X OFTimeSteps)
        \cup {<<"eth", <<1, "Buy">>, <<1, "Buy">>, 0>>, <<"eth", <<2, "Sell">>, <<1, "Buy">>, 0>>}

\* the bar the builder completes from a trade at 100.00 and one a range above
TwoTradeBar(symbol, first, second, close_time, bar_index) ==
    LET opening == [symbol |-> symbol, price |-> Px(100), quantity |-> first[1],
                    side |-> first[2], timestamp |-> close_time]
        closing == [symbol |-> symbol, price |-> Px(100) + range_for(symbol),
                    quantity |-> second[1], side |-> second[2], timestamp |-> close_time]
    IN RangeBar(closing, BuildingBar_update(BuildingBar_new(opening), closing), bar_index)

BarsOf(bars, symbol) == SelectSeq(bars, LAMBDA b : b.symbol = symbol)

LastCloseTime(bars) == IF bars = <<>> THEN 0 ELSE bars[Len(bars)].close_time

InitOF ==
    /\ EngineAtStart
    /\ range_bars = BarsStart
    /\ volume_profiler = ProfilerStart
    /\ order_flow = OrderFlowStart
    /\ strategy = StrategyStart

\* main.rs (processing task): order_flow_tracker.analyze_bar(&bar)
OFBar(symbol, first, second, step) ==
    /\ Len(order_flow.bars) < MaxOFBars
    /\ LET bar == TwoTradeBar(symbol, first, second, LastCloseTime(order_flow.bars) + step,
                              Len(BarsOf(order_flow.bars, symbol)) + 1)
           r   == analyze_bar(order_flow.tracker, bar)
       IN order_flow' = [tracker |-> r.tracker, bars |-> Append(order_flow.bars, bar),
                         ret |-> Some(r.ret)]
    /\ UNCHANGED <<positions, risk, order_books, latest_profiles, hourly_performance,
                   symbol_stats, execution_q, now, pipe, range_bars, volume_profiler,
                   strategy, last_gate, hist>>

NextOF == \E i \in OFBarInputs : OFBar(i[1], i[2], i[3], i[4])

SpecOF == InitOF /\ [][NextOF]_vars

RECURSIVE SumDeltas(_)
SumDeltas(bars) ==
    IF bars = <<>> THEN 0
    ELSE (Head(bars).buy_volume - Head(bars).sell_volume) + SumDeltas(Tail(bars))

\* C27: for every symbol the CVD of the tracker, and the cvd of the metrics
\* returned for a bar of that symbol, is the sum of buy_volume - sell_volume
\* over all the bars of that symbol analysed so far, whatever the history has
\* pruned and whatever bars other symbols had.
CvdIsSumOfDeltas ==
    /\ \A s \in Symbols :
           order_flow.tracker.cvd[s] = SumDeltas(BarsOf(order_flow.bars, s))
    /\ order_flow.ret # None =>
           Unwrap(order_flow.ret).cvd =
               SumDeltas(BarsOf(order_flow.bars, Unwrap(order_flow.ret).symbol))

\* btc has lost history entries to the pruning and eth has been analysed too
CvdIsSumOfDeltasWitness ==
    /\ Len(BarsOf(order_flow.bars, "btc")) >= 3
    /\ Len(order_flow.tracker.cvd_history["btc"]) = 1
    /\ Len(BarsOf(order_flow.bars, "eth")) >= 1
    /\ order_flow.tracker.cvd["btc"] < 0
    /\ order_flow.tracker.cvd["eth"] > 0
    /\ Unwrap(order_flow.ret).symbol = "btc"


(***************************************************************************)
(* The histories of the tracker under a burst: after a few bars of either  *)
(* symbol, spaced or not, btc closes bar after bar at the same close time  *)
(* (range bars close on price, so one burst of trades completes many).     *)
(* order_flow.bars keeps the last bar of each symbol only.                 *)
(***************************************************************************)
MaxRingBars == 402       \* bars analysed in the burst run
MaxSpacedBars == 2       \* bars of the burst run that may be spaced or of eth

RingLast(symbol) ==
    LET own == BarsOf(order_flow.bars, symbol)
    IN IF own = <<>> THEN 0 ELSE own[1].bar_index

RingTotal == RingLast("btc") + RingLast("eth")

\* main.rs (processing task): order_flow_tracker.analyze_bar(&bar)
RingBar(symbol, step) ==
    /\ RingTotal < MaxRingBars
    /\ RingTotal >= MaxSpacedBars => (symbol = "btc" /\ step = 0)
    /\ LET bar == TwoTradeBar(symbol, <<1, "Buy">>, <<2, "Sell">>,
                              LastCloseTime(order_flow.bars) + step,
                              RingLast(symbol) + 1)
           r   == analyze_bar(order_flow.tracker, bar)
       IN order_flow' = [tracker |-> r.tracker,
                         bars |-> SelectSeq(order_flow.bars,
                                            LAMBDA b : b.symbol # symbol) \o <<bar>>,
                         ret |-> Some(r.ret)]
    /\ UNCHANGED <<positions, risk, order_books, latest_profiles, hourly_performance,
                   symbol_stats, execution_q, now, pipe, range_bars, volume_profiler,
                   strategy, last_gate, hist>>

NextRings == \E symbol \in Symbols, step \in OFTimeSteps : RingBar(symbol, step)

SpecRings == InitOF /\ [][NextRings]_vars

\* the largest capacity the code gives any of the histories
LargestRing == SamplesCap

\* C35: for every symbol the strategy's sample history, the tracker's
\* bar-delta history and its bar-volume history never exceed their
\* capacities (400, 50 and volume_baseline_bars), and the CVD history never
\* exceeds a fixed number of entries either (here the largest of the
\* capacities), however many bars close within one 5-minute window.
HistoriesBounded ==
    \A s \in Symbols :
        /\ Len(strategy.st.advanced_samples[s]) <= SamplesCap
        /\ Len(strategy.st.recent_bars[s]) <= RecentBarsCap
        /\ Len(order_flow.tracker.recent_deltas[s]) <= RecentDeltasCap
        /\ Len(order_flow.tracker.recent_volumes[s]) <= VolumeBaselineBars
        /\ Len(order_flow.tracker.cvd_history[s]) <= LargestRing

(***************************************************************************)
(* The order book of btc alone (max_depth 2): depth updates with up to two *)
(* bid levels, a price possibly twice in one update, and zero quantities.  *)
(* hist keeps the book before the last update and the update itself.       *)
(***************************************************************************)
BookBidPrices == {Px(19), Px(20), S5BestBid}
BookQuantities == {0, 1}
BookBidLevels ==
    {[price |-> p, quantity |-> q] : p \in BookBidPrices, q \in BookQuantities}
        \cup {Level(20, 2)}
BookBids ==
    {<<>>} \cup {<<l>> : l \in BookBidLevels}
           \cup {<<l, m>> : l \in BookBidLevels, m \in BookBidLevels}
BookAsks ==
    { <<Level(21, 1)>>,
      <<Level(22, 0)>>,
      <<Level(21, 1), Level(22, 2), [price |-> S5BestAsk, quantity |-> 1]>> }
BookUpdates == {[symbol |-> "btc", bids |-> b, asks |-> a] : b \in BookBids, a \in BookAsks}

InitBook ==
    /\ positions = <<>>
    /\ risk = [balance |-> InitialBalance, daily_pnl |-> 0, daily_halted |-> FALSE,
               open_positions |-> [s \in Symbols |-> <<>>]]
    /\ order_books = [s \in Symbols |-> None]
    /\ latest_profiles = [s \in Symbols |-> None]
    /\ hourly_performance = [k \in Symbols \X Hours |-> <<>>]
    /\ symbol_stats = [s \in Symbols |-> ZeroStats]
    /\ execution_q = <<>>
    /\ now = 0
    /\ pipe = PipeStart(TRUE)
    /\ range_bars = BarsStart
    /\ volume_profiler = ProfilerStart
    /\ order_flow = OrderFlowStart
    /\ strategy = StrategyStart
    /\ last_gate = "none"
    /\ hist = [before |-> EmptyBook, last |-> None]

\* engine.rs on_depth: book.update(depth)
BookDepth(depth) ==
    /\ LET before == IF order_books[depth.symbol] = None THEN EmptyBook
                     ELSE Unwrap(order_books[depth.symbol])
       IN SetEngine([on_depth(Engine, depth) EXCEPT
                        !.hs = [before |-> before, last |-> Some(depth)]])
    /\ UNCHANGED <<now, pipe, range_bars, volume_profiler, order_flow, strategy, last_gate>>

NextBook == \E depth \in BookUpdates : BookDepth(depth)

SpecBook == InitBook /\ [][NextBook]_vars

\* C29: the book reached by applying a depth update is the book reached by
\* applying that update once more, on both sides and after trimming.
UpdateTwiceIsUpdateOnce ==
    hist.last # None =>
        LET once == Unwrap(order_books["btc"])
        IN /\ once = book_update(hist.before, Unwrap(hist.last))
           /\ book_update(once, Unwrap(hist.last)) = once

\* an update that made the book trim a bid, and one that removed a level
UpdateTwiceIsUpdateOnceWitness ==
    /\ hist.last # None
    /\ Cardinality(Keys(ApplyLevels(hist.before.bids, Unwrap(hist.last).bids)))
           > OrderBookDepth
    /\ Cardinality(Keys(ApplyLevels(hist.before.asks, Unwrap(hist.last).asks)))
           > OrderBookDepth
    /\ Unwrap(order_books["btc"]).bids # hist.before.bids
    /\ \E i \in DOMAIN Unwrap(hist.last).bids : Unwrap(hist.last).bids[i].quantity = 0


(***************************************************************************)
(* The strategy engine alone.  Each bar is built from three trades by the  *)
(* bar builder and its flow by analyze_bar; the fields of the flow that    *)
(* depend on the bars before it (the one-minute CVD change and the volume  *)
(* burst) are drawn from the quiet and the bursting case.                  *)
(***************************************************************************)
MaxStratBars == 5        \* bars processed

StratProfiles ==
    { [symbol |-> "btc", poc |-> Px(101), vah |-> Px(104), val |-> Px(100),
       total_volume |-> 10, session_high |-> Px(104), session_low |-> Px(99),
       vwap |-> <<Px(103), 1>>, hvn |-> None, timestamp |-> 0],
      [symbol |-> "eth", poc |-> Px(99), vah |-> Px(101), val |-> Px(98),
       total_volume |-> 10, session_high |-> Px(102), session_low |-> Px(97),
       vwap |-> <<Px(99), 1>>, hvn |-> Some(Px(99)), timestamp |-> 0] }

\* the bar the builder completes from these trades
RECURSIVE BuildBar(_)
BuildBar(trades) ==
    IF Len(trades) = 1 THEN BuildingBar_new(trades[1])
    ELSE BuildingBar_update(BuildBar(SubSeq(trades, 1, Len(trades) - 1)), trades[Len(trades)])

BarFrom(trades, bar_index) == RangeBar(trades[Len(trades)], BuildBar(trades), bar_index)

StratTrade(symbol, price, quantity, side) ==
    [symbol |-> symbol, price |-> price, quantity |-> quantity, side |-> side, timestamp |-> 0]

\* btc: selling absorbed at 100.50 in a bar that closes up at 102.50;
\* eth: buying absorbed at 101.00 in a bar that closes down at 100.00
StratBars ==
    [btc |-> << StratTrade("btc", Px(100) + 50, 1, "Buy"),
                StratTrade("btc", Px(100) + 50, 2, "Sell"),
                StratTrade("btc", Px(102) + 50, 1, "Sell") >>,
     eth |-> << StratTrade("eth", Px(101), 1, "Sell"),
                StratTrade("eth", Px(101), 2, "Buy"),
                StratTrade("eth", Px(100), 1, "Buy") >>]

Quiet == [change |-> 0, drop |-> FALSE, rise |-> FALSE, ratio |-> <<0, 1>>, burst |-> FALSE]
Dropping == [change |-> -6, drop |-> TRUE, rise |-> FALSE, ratio |-> <<2, 1>>, burst |-> TRUE]
Rising == [change |-> 6, drop |-> FALSE, rise |-> TRUE, ratio |-> <<2, 1>>, burst |-> TRUE]

StratInputs == {<<"btc", Dropping>>, <<"btc", Quiet>>, <<"eth", Rising>>, <<"eth", Quiet>>}

\* the metrics analyze_bar returns for the bar, with the history-dependent ones
FlowOf(bar, dynamics) ==
    [analyze_bar(OrderFlowTracker_new, bar).ret EXCEPT
        !.cvd_1min_change = dynamics.change,
        !.cvd_rapid_drop = dynamics.drop,
        !.cvd_rapid_rise = dynamics.rise,
        !.avg_bar_volume = IF dynamics.burst THEN <<bar.volume, dynamics.ratio[1]>>
                           ELSE <<0, 1>>,
        !.volume_burst_ratio = dynamics.ratio,
        !.volume_burst = dynamics.burst]

StrategyOnly ==
    UNCHANGED <<positions, risk, order_books, latest_profiles, hourly_performance,
                symbol_stats, execution_q, now, pipe, range_bars, volume_profiler,
                order_flow, last_gate, hist>>

InitStrat ==
    /\ EngineAtStart
    /\ range_bars = BarsStart
    /\ volume_profiler = ProfilerStart
    /\ order_flow = OrderFlowStart
    /\ strategy = StrategyStart

\* main.rs (processing task): strategy_engine.update_profile(vp)
StratProfile(profile) ==
    /\ strategy.st.profiles[profile.symbol] = None
    /\ strategy' = [strategy EXCEPT !.st = update_profile(@, profile)]
    /\ StrategyOnly

LogOf(log, symbol) == SelectSeq(log, LAMBDA r : r.symbol = symbol)

\* main.rs (processing task): update_flow(flow), then process_bar(&bar)
StratBar(symbol, dynamics) ==
    /\ Len(strategy.log) < MaxStratBars
    /\ LET bar     == BarFrom(StratBars[symbol], Len(LogOf(strategy.log, symbol)) + 1)
           flowing == update_flow(strategy.st, FlowOf(bar, dynamics))
           r       == process_bar(flowing, bar)
       IN strategy' = [st  |-> r.st,
                       log |-> Append(strategy.log,
                                      [symbol    |-> symbol,
                                       bar_index |-> bar.bar_index,
                                       qualifies |-> advanced_side(flowing, bar) # None,
                                       signals   |-> r.signals])]
    /\ StrategyOnly

NextStrat ==
    \/ \E profile \in StratProfiles : StratProfile(profile)
    \/ \E i \in StratInputs : StratBar(i[1], i[2])

SpecStrat == InitStrat /\ [][NextStrat]_vars

\* the bar of this record produced an AdvancedOrderFlow signal
Advanced(record) ==
    \E n \in DOMAIN record.signals : record.signals[n].setup = "AdvancedOrderFlow"

\* C30: two AdvancedOrderFlow signals of one symbol are at least
\* advanced_cooldown_bars bars apart, and a bar whose profile and flow meet
\* the conditions of the setup produces the signal exactly when no earlier
\* signal of its own symbol is closer than that, whatever other symbols did.
CooldownPerSymbol ==
    \A k \in DOMAIN strategy.log :
        LET record == strategy.log[k]
            recent == {j \in 1 .. (k - 1) :
                          /\ strategy.log[j].symbol = record.symbol
                          /\ Advanced(strategy.log[j])
                          /\ record.bar_index - strategy.log[j].bar_index
                                 < AdvancedCooldownBars}
        IN /\ Advanced(record) => recent = {}
           /\ Advanced(record) <=> (record.qualifies /\ recent = {})

\* btc signals at bar 1, is suppressed at bar 2 and signals again at bar 3,
\* and eth signals while btc is cooling down
CooldownPerSymbolWitness ==
    \E a, b, c, e \in DOMAIN strategy.log :
        /\ a < e /\ e < b /\ b < c
        /\ strategy.log[a].symbol = "btc" /\ Advanced(strategy.log[a])
        /\ strategy.log[b].symbol = "btc" /\ strategy.log[b].qualifies
        /\ strategy.log[b].bar_index = strategy.log[a].bar_index + 1
        /\ ~Advanced(strategy.log[b])
        /\ strategy.log[c].symbol = "btc" /\ Advanced(strategy.log[c])
        /\ strategy.log[c].bar_index = strategy.log[a].bar_index + AdvancedCooldownBars
        /\ strategy.log[e].symbol = "eth" /\ Advanced(strategy.log[e])


(***************************************************************************)
(* The processing task: every trade goes to the volume profiler, then to   *)
(* the bar builder; a completed bar goes to the order-flow tracker and,    *)
(* with its flow, to the strategy.                                         *)
(***************************************************************************)
MaxProcTrades == 5       \* trades processed

ProcPrices == {Px(100), Px(101), Px(102)}
ProcFills == {<<1, "Buy">>, <<2, "Sell">>}
ProcInputs == ({"btc"} \X ProcPrices \X ProcFills) \cup {<<"eth", Px(100), <<1, "Buy">>>>}

InitProc ==
    /\ EngineAtStart
    /\ range_bars = BarsStart
    /\ volume_profiler = ProfilerStart
    /\ order_flow = OrderFlowStart
    /\ strategy = StrategyStart

MinutesPerHour == 60

\* the state of the processing task
Processing ==
    [volume_profiler |-> volume_profiler, range_bars |-> range_bars,
     order_flow |-> order_flow, strategy |-> strategy]

\* the snapshot as the simulator uses it: the vwap as a price in hundredths
EngineProfile(snapshot) == [snapshot EXCEPT !.vwap = @[1] \div @[2]]

\* a task that sends the signals of a bar before the profile of its trade
ProcessingEvents_signals_first(profiled, bar, flow, signals, t) ==
    (IF bar = None THEN <<>>
     ELSE [k \in DOMAIN signals |->
              [type |-> "Signal", signal |-> Signal(signals[k].symbol, signals[k], t)]]
          \o <<[type |-> "OrderFlow", symbol |-> Unwrap(bar).symbol],
               [type |-> "NewBar", symbol |-> Unwrap(bar).symbol]>>)
    \o (IF profiled = None THEN <<>>
        ELSE <<[type |-> "VolumeProfile", profile |-> EngineProfile(Unwrap(profiled))]>>)

\* the events one trade makes the processing task send, in the order of its sends
ProcessingEvents(profiled, bar, flow, signals, t) ==
    (IF profiled = None THEN <<>>
     ELSE <<[type |-> "VolumeProfile", profile |-> EngineProfile(Unwrap(profiled))]>>)
    \o (IF bar = None THEN <<>>
        ELSE <<[type |-> "OrderFlow", symbol |-> Unwrap(bar).symbol],
               [type |-> "NewBar", symbol |-> Unwrap(bar).symbol]>>
             \o [k \in DOMAIN signals |->
                    [type |-> "Signal",
                     signal |-> Signal(signals[k].symbol, signals[k], t)]])

\* main.rs (processing task), MarketEvent::Trade: the components afterwards
\* and the events sent.  The tracker reads the close time of the bar in minutes.
processing_trade(S, trade) ==
    LET profiled == profile_trade(S.volume_profiler.vp, trade)
        profiles == IF profiled.ret = None THEN S.strategy.st
                    ELSE update_profile(S.strategy.st, Unwrap(profiled.ret))
        built    == process_trade(S.range_bars.builders, trade)
        bar      == Unwrap(built.ret)
        analysed == analyze_bar(S.order_flow.tracker,
                                [bar EXCEPT !.close_time = @ * MinutesPerHour])
        flowing  == update_flow(profiles, analysed.ret)
        r        == process_bar(flowing, bar)
    IN [volume_profiler |->
            [vp |-> profiled.vp, n |-> S.volume_profiler.n + 1,
             clock |-> trade.timestamp, ret |-> profiled.ret],
        range_bars |->
            [builders |-> built.builders,
             trades   |-> Append(S.range_bars.trades, trade),
             emitted  |-> IF built.ret = None THEN S.range_bars.emitted
                          ELSE Append(S.range_bars.emitted, bar)],
        order_flow |->
            IF built.ret = None THEN S.order_flow
            ELSE [tracker |-> analysed.tracker,
                  bars    |-> Append(S.order_flow.bars, bar),
                  ret     |-> Some(analysed.ret)],
        strategy |->
            IF built.ret = None THEN [S.strategy EXCEPT !.st = profiles]
            ELSE [st  |-> r.st,
                  log |-> Append(S.strategy.log,
                                 [symbol    |-> trade.symbol,
                                  bar_index |-> bar.bar_index,
                                  qualifies |-> advanced_side(flowing, bar) # None,
                                  signals   |-> r.signals,
                                  close     |-> bar.close,
                                  profiled  |-> profiled.ret,
                                  held      |-> flowing.profiles[trade.symbol],
                                  flow      |-> analysed.ret])],
        events |->
            ProcessingEvents(profiled.ret, built.ret,
                             IF built.ret = None THEN None ELSE Some(analysed.ret),
                             IF built.ret = None THEN <<>> ELSE r.signals,
                             trade.timestamp)]

SetProcessing(S) ==
    /\ volume_profiler' = S.volume_profiler
    /\ range_bars' = S.range_bars
    /\ order_flow' = S.order_flow
    /\ strategy' = S.strategy

\* main.rs (processing task): MarketEvent::Trade
ProcTrade(symbol, price, fill) ==
    /\ Len(range_bars.trades) < MaxProcTrades
    /\ SetProcessing(processing_trade(Processing,
                                      [symbol |-> symbol, price |-> price,
                                       quantity |-> fill[1], side |-> fill[2],
                                       timestamp |-> 0]))
    /\ UNCHANGED <<positions, risk, order_books, latest_profiles, hourly_performance,
                   symbol_stats, execution_q, now, pipe, last_gate, hist>>

NextProc == \E i \in ProcInputs : ProcTrade(i[1], i[2], i[3])

SpecProc == InitProc /\ [][NextProc]_vars

\* C28: every signal process_bar returns has its stop and its target on
\* opposite sides of the entry: stop < entry < target for a Buy and
\* target < entry < stop for a Sell.
SignalsBracketEntry ==
    \A k \in DOMAIN strategy.log :
        \A n \in DOMAIN strategy.log[k].signals :
            LET signal == strategy.log[k].signals[n]
            IN IF signal.side = "Buy"
               THEN signal.stop_loss < signal.entry_price
                        /\ signal.entry_price < signal.take_profit
               ELSE signal.take_profit < signal.entry_price
                        /\ signal.entry_price < signal.stop_loss


(***************************************************************************)
(* The processing task and the simulator joined by the processing channel: *)
(* the task awaits each send of a trade's events before it takes the next  *)
(* trade, the channel holds ProcCap events, and the simulator handles them *)
(* one by one.  A trade is stamped in hours; one of the inputs comes after *)
(* the session of the profile has run out.  Here pipe.signalled keeps, for *)
(* every event the simulator handled, its type, its trade, its place in    *)
(* the order of handling and the profile the simulator held for the symbol *)
(* afterwards.                                                             *)
(***************************************************************************)
MaxFeedTrades == 4       \* trades processed

FeedInputs ==
    ({"btc"} \X ProcPrices \X ProcFills \X {0})
        \cup { <<"btc", Px(103), <<1, "Buy">>, SessionResetHours + 1>>,
               <<"eth", Px(100), <<1, "Buy">>, 0>> }

InitFeed ==
    /\ EngineAtStart
    /\ range_bars = BarsStart
    /\ volume_profiler = ProfilerStart
    /\ order_flow = OrderFlowStart
    /\ strategy = StrategyStart

LastTimestamp(trades) == IF trades = <<>> THEN 0 ELSE trades[Len(trades)].timestamp

\* the events of a trade with the number of the trade
Numbered(events, n) ==
    [k \in DOMAIN events |->
        [type    |-> events[k].type,
         trade   |-> n,
         symbol  |-> IF events[k].type = "Signal" THEN events[k].signal.symbol
                     ELSE IF events[k].type = "VolumeProfile" THEN events[k].profile.symbol
                     ELSE events[k].symbol,
         payload |-> events[k]]]

\* processing task: a trade arrives and is processed; its sends are pending
FeedTrade(symbol, price, fill, step) ==
    /\ Running("processing")
    /\ AtSelect(pipe.pending)
    /\ Len(range_bars.trades) < MaxFeedTrades
    /\ LET r == processing_trade(Processing,
                                 [symbol |-> symbol, price |-> price,
                                  quantity |-> fill[1], side |-> fill[2],
                                  timestamp |-> LastTimestamp(range_bars.trades) + step])
       IN /\ SetProcessing(r)
          /\ pipe' = [pipe EXCEPT !.pending = Numbered(r.events, Len(range_bars.trades) + 1),
                                  !.proc_current = Len(range_bars.trades) + 1]
    /\ UNCHANGED <<positions, risk, order_books, latest_profiles, hourly_performance,
                   symbol_stats, execution_q, now, last_gate, hist>>

\* simulator: processing_rx.recv() and handle_processing_event
FeedSimRecv ==
    /\ Running("sim")
    /\ pipe.processing_q # <<>>
    /\ LET got == mpsc_recv(pipe.processing_q)
           r   == handle_processing_event(Engine, got.event.payload, now)
       IN /\ r.gate = "opened" => Len(positions) < MaxPositions
          /\ SetEngine(r.E)
          /\ last_gate' = r.gate
          /\ pipe' = [pipe EXCEPT
                         !.processing_q = got.queue,
                         !.sim_last = got.event.trade,
                         !.signalled = @ \cup {[type   |-> got.event.type,
                                                trade  |-> got.event.trade,
                                                symbol |-> got.event.symbol,
                                                at     |-> Cardinality(@) + 1,
                                                seen   |-> r.E.profiles[got.event.symbol]]}]
    /\ UNCHANGED <<now, range_bars, volume_profiler, order_flow, strategy>>

NextFeed ==
    \/ \E i \in FeedInputs : FeedTrade(i[1], i[2], i[3], i[4])
    \/ ProcSend
    \/ FeedSimRecv

SpecFeed == InitFeed /\ [][NextFeed]_vars

\* the events handled by the simulator, in the order it handled them
Received ==
    [k \in 1 .. Cardinality(pipe.signalled) |->
        CHOOSE e \in pipe.signalled : e.at = k]

\* every event sent so far or about to be sent, in channel order
Channelled ==
    [k \in DOMAIN Received |-> [type |-> Received[k].type, trade |-> Received[k].trade]]
    \o [k \in DOMAIN pipe.processing_q |->
           [type |-> pipe.processing_q[k].type, trade |-> pipe.processing_q[k].trade]]
    \o [k \in DOMAIN pipe.pending |->
           [type |-> pipe.pending[k].type, trade |-> pipe.pending[k].trade]]

EventRank(type) ==
    IF type = "VolumeProfile" THEN 1
    ELSE IF type = "OrderFlow" THEN 2
    ELSE IF type = "NewBar" THEN 3
    ELSE 4

\* C31: the strategy checks the setups of a bar with the profile of the
\* bar's closing trade and the flow of the bar itself; the events of a trade
\* travel in the order VolumeProfile, OrderFlow, NewBar, Signals, after the
\* events of the trades before it; and when the simulator handles a signal it
\* already holds the profile snapshot of the signal's trade.
PipelineOrder ==
    /\ \A k \in DOMAIN strategy.log :
           LET record == strategy.log[k]
           IN /\ record.profiled # None => record.held = record.profiled
              /\ record.flow.bar_delta =
                     delta(BarsOf(order_flow.bars, record.symbol)[record.bar_index])
              /\ record.flow.cvd =
                     SumDeltas(SubSeq(BarsOf(order_flow.bars, record.symbol),
                                      1, record.bar_index))
    /\ \A i, j \in DOMAIN Channelled :
           i < j =>
               /\ Channelled[i].trade <= Channelled[j].trade
               /\ Channelled[i].trade = Channelled[j].trade =>
                      /\ EventRank(Channelled[i].type) <= EventRank(Channelled[j].type)
                      /\ EventRank(Channelled[i].type) = EventRank(Channelled[j].type)
                             => Channelled[i].type = "Signal"
    /\ \A k \in DOMAIN Channelled :
           Channelled[k].type \in {"OrderFlow", "Signal"} =>
               \E n \in DOMAIN Channelled :
                   /\ Channelled[n].type = "NewBar"
                   /\ Channelled[n].trade = Channelled[k].trade
    /\ \A e \in pipe.signalled :
           (e.type = "Signal" /\ volume_profiler.n >= e.trade) =>
               \A p \in DOMAIN Channelled :
                   (Channelled[p].type = "VolumeProfile" /\ Channelled[p].trade = e.trade) =>
                       /\ p < e.at
                       /\ Received[p].seen = e.seen

\* the simulator has handled the profile, the flow, the bar and a signal of
\* one trade while a further signal of that trade waits in the channel
PipelineOrderWitness ==
    \E a, b, c, d \in pipe.signalled :
        /\ a.type = "VolumeProfile" /\ b.type = "OrderFlow"
        /\ c.type = "NewBar" /\ d.type = "Signal"
        /\ a.trade = d.trade /\ b.trade = d.trade /\ c.trade = d.trade
        /\ d.seen # None
        /\ pipe.processing_q # <<>>
        /\ pipe.processing_q[1].type = "Signal"
        /\ pipe.processing_q[1].trade = d.trade

Squeezed(record) ==
    \E i \in DOMAIN record.signals : record.signals[i].setup = "MomentumSqueeze"

\* C39: for every completed bar, if the profiler returned a snapshot for the
\* trade that completed it, the strategy checked the bar against that
\* snapshot, the snapshot has session_low <= bar.close <= session_high, and
\* no MomentumSqueeze signal was emitted for the bar; so a MomentumSqueeze
\* signal is emitted only for a bar whose closing trade yielded no snapshot.
SqueezeOnlyOnStaleProfile ==
    \A k \in DOMAIN strategy.log :
        LET record == strategy.log[k]
        IN record.profiled # None =>
               /\ record.held = record.profiled
               /\ Unwrap(record.held).session_low <= record.close
               /\ record.close <= Unwrap(record.held).session_high
               /\ ~Squeezed(record)

\* a bar closed by the first trade after a session reset, which yielded no
\* snapshot, broke out of the session range of the profile the strategy
\* still held and was given a MomentumSqueeze signal; an earlier bar was
\* closed by a trade that did yield a snapshot
SqueezeOnlyOnStaleProfileWitness ==
    \E k, l \in DOMAIN strategy.log :
        /\ Squeezed(strategy.log[k])
        /\ strategy.log[k].profiled = None
        /\ strategy.log[k].held # None
        /\ strategy.log[k].close > Unwrap(strategy.log[k].held).session_high
        /\ l < k
        /\ strategy.log[l].profiled # None

====
